---------------------------- MODULE Spec2Model ----------------------------
(***************************************************************************)
(* The resumable batch export of the spreadsheet-to-tasks exporter (the    *)
(* single-sheet variant: createTasksFromCurrentSheet / continueProcess /   *)
(* getTaskListIdByName / createTrigger / deleteExistingTriggers).          *)
(*                                                                         *)
(* Strings are sequences of one-character strings, so that trim(),         *)
(* toLowerCase() and startsWith() are computed and not assumed.  The       *)
(* script properties are a function from the keys that are set to their    *)
(* stored text; the project's triggers are the sequence of their handler   *)
(* names; the remote task service is the sequence of its task lists.       *)
(***************************************************************************)
EXTENDS Integers, Sequences, FiniteSets, TLC

\* ------------------------------------------------------------------ bounds

\* Longest sheet, in data rows (the rows below the header row).
MaxRows == 2

\* Largest batch size a run is given (BATCH_SIZE is 100 in the source; the
\* model draws it from 1..MaxBatchSize so that a short sheet needs several
\* batches).
MaxBatchSize == 2

\* Most task lists the remote service holds; creations beyond it are refused.
MaxRemoteLists == 2

\* Most interruptions (the host killing an invocation) within one run.
MaxCrashes == 1

\* Most sheets of the spreadsheet the multi-sheet script goes through.
MaxSheets == 2

\* The longest sheet the non-batched exporter is run on.
MaxExportRows == 4

\* --------------------------------------------------------------- constants

SCRIPT_PROPERTY_ROW == "lastProcessedRow"

SCRIPT_PROPERTY_SHEET_NAME == "sourceSheetName"

SCRIPT_PROPERTY_CACHE == "taskListCache"

SCRIPT_PROPERTY_LIST == "lastKnownListTitle"

SCRIPT_PROPERTY_REPORT == "executionReport"

SCRIPT_TRIGGER_HANDLER == "continueProcess"

\* The key of the multi-sheet script for the index of the sheet in progress.
SCRIPT_PROPERTY_SHEET == "lastProcessedSheetIndex"

\* A handler of the project other than the batch runner (the menu's onOpen).
OTHER_HANDLER == "onOpen"

\* The first data row: `parseInt(...) || 2`.
FirstDataRow == 2

\* The pause after a task creation, in milliseconds.
API_DELAY_MS == 500

\* ----------------------------------------------------------------- strings

\* null and the empty string, both falsy; the code only tests a value that may
\* be null for truthiness.
Null == <<>>

\* JavaScript truthiness of a string: the empty string (and null, which the
\* model writes as the empty string) is falsy.
Truthy(s) == s /= <<>>

IsSpace(c) == c = " "

RECURSIVE TrimStart(_)
TrimStart(s) ==
    IF s /= <<>> /\ IsSpace(Head(s)) THEN TrimStart(Tail(s)) ELSE s

RECURSIVE TrimEnd(_)
TrimEnd(s) ==
    IF s /= <<>> /\ IsSpace(s[Len(s)]) THEN TrimEnd(SubSeq(s, 1, Len(s) - 1)) ELSE s

\* String.prototype.trim
Trim(s) == TrimEnd(TrimStart(s))

LowerChar(c) ==
    CASE c = "A" -> "a"
      [] c = "B" -> "b"
      [] c = "C" -> "c"
      [] c = "D" -> "d"
      [] c = "E" -> "e"
      [] c = "F" -> "f"
      [] c = "G" -> "g"
      [] c = "H" -> "h"
      [] c = "I" -> "i"
      [] c = "J" -> "j"
      [] c = "K" -> "k"
      [] c = "L" -> "l"
      [] c = "M" -> "m"
      [] c = "N" -> "n"
      [] c = "O" -> "o"
      [] c = "P" -> "p"
      [] c = "Q" -> "q"
      [] c = "R" -> "r"
      [] c = "S" -> "s"
      [] c = "T" -> "t"
      [] c = "U" -> "u"
      [] c = "V" -> "v"
      [] c = "W" -> "w"
      [] c = "X" -> "x"
      [] c = "Y" -> "y"
      [] c = "Z" -> "z"
      [] OTHER -> c

ToLowerCase(s) == [i \in 1..Len(s) |-> LowerChar(s[i])]

\* String.prototype.startsWith
StartsWith(s, prefix) ==
    /\ Len(s) >= Len(prefix)
    /\ SubSeq(s, 1, Len(prefix)) = prefix

Digit(d) ==
    CASE d = 0 -> "0" [] d = 1 -> "1" [] d = 2 -> "2" [] d = 3 -> "3"
      [] d = 4 -> "4" [] d = 5 -> "5" [] d = 6 -> "6" [] d = 7 -> "7"
      [] d = 8 -> "8" [] OTHER -> "9"

DigitValue(c) ==
    CASE c = "0" -> 0 [] c = "1" -> 1 [] c = "2" -> 2 [] c = "3" -> 3
      [] c = "4" -> 4 [] c = "5" -> 5 [] c = "6" -> 6 [] c = "7" -> 7
      [] c = "8" -> 8 [] c = "9" -> 9 [] OTHER -> -1

\* Number.prototype.toString of a natural number.
RECURSIVE NumberToString(_)
NumberToString(n) ==
    IF n < 10 THEN <<Digit(n)>>
    ELSE Append(NumberToString(n \div 10), Digit(n % 10))

\* parseInt(s, 10) of a stored text: the value of its leading digits, and
\* NaN (written -1) when it has none.
RECURSIVE ParseDigits(_, _)
ParseDigits(s, acc) ==
    IF s = <<>> \/ DigitValue(Head(s)) < 0 THEN acc
    ELSE ParseDigits(Tail(s), 10 * acc + DigitValue(Head(s)))

ParseInt(s) ==
    IF s = <<>> \/ DigitValue(Head(s)) < 0 THEN -1 ELSE ParseDigits(s, 0)

\* `parseInt(text, 10) || dflt`: NaN and 0 are falsy.
ParseIntOr(s, dflt) ==
    IF ParseInt(s) <= 0 THEN dflt ELSE ParseInt(s)

\* JSON.stringify of an object with string keys: a text, here the one-element
\* sequence holding the set of the object's members ("{}" is not the empty
\* text).
JSONstringify(obj) == << {<<k, obj[k]>> : k \in DOMAIN obj} >>

\* JSON.parse of such a text.
JSONparse(text) ==
    [k \in {m[1] : m \in text[1]} |-> (CHOOSE m \in text[1] : m[1] = k)[2]]

\* The empty object {}.
EmptyObject == [k \in {} |-> 0]

\* obj[key] = value
Put(obj, key, value) ==
    [k \in DOMAIN obj \cup {key} |-> IF k = key THEN value ELSE obj[k]]


\* ------------------------------------------------------------------- sheet

completed == <<"c", "o", "m", "p", "l", "e", "t", "e", "d">>

ListPrefix == <<"l", "i", "s", "t", ":">>

\* The name of the sheet the run is started on.
SheetName == <<"S">>

\* The name the sheet has after the user renamed it.
RenamedSheetName == <<"T">>

HeaderNames == {"list_title", "id", "title", "status"}

\* The header row of a sheet that also has the due and links columns.
ExportHeaderNames == HeaderNames \cup {"due", "links"}

\* The header rows a sheet is given: the importer's, and that row without
\* one of the two required columns.
HeaderRows == {HeaderNames, HeaderNames \ {"title"}, HeaderNames \ {"list_title"}}

\* The kinds of data row a sheet is built from.
RowKinds == <<
    \* 1: a task row that carries its list
    [list_title |-> <<"A">>, title |-> <<"t">>, id |-> <<"1">>, status |-> <<>>,
     due |-> <<>>, links |-> <<>>],
    \* 2: a task row without a list cell, completed
    [list_title |-> <<>>, title |-> <<"u">>, id |-> <<>>,
     status |-> <<"C", "o", "m", "p", "l", "e", "t", "e", "d", " ">>,
     due |-> <<>>, links |-> <<>>],
    \* 3: a list definition row
    [list_title |-> <<" ", "B">>, title |-> <<"L", "i", "s", "t", ":", "B">>,
     id |-> <<>>, status |-> <<>>, due |-> <<>>, links |-> <<>>],
    \* 4: a row with a blank title and an id
    [list_title |-> <<>>, title |-> <<" ">>, id |-> <<"2", " ">>, status |-> <<>>,
     due |-> <<>>, links |-> <<>>],
    \* 5: a row with neither title nor id
    [list_title |-> <<" ">>, title |-> <<>>, id |-> <<>>, status |-> <<>>,
     due |-> <<>>, links |-> <<>>],
    \* 6: a task row with a due date
    [list_title |-> <<"A">>, title |-> <<"d">>, id |-> <<>>, status |-> <<>>,
     due |-> <<"2", "0", "2", "4", "-", "0", "1", "-", "0", "2">>,
     links |-> <<>>],
    \* 7: a completed task row with a due value that is no date, and a link
    [list_title |-> <<"A">>, title |-> <<"s">>, id |-> <<>>,
     status |-> completed, due |-> <<"s", "o", "o", "n">>,
     links |-> <<"h", "t", "t", "p", ":", "/", "/", "x">>],
    \* 8: the row ["List: Work", "list1"] under title, id, status, due, links
    [list_title |-> <<>>,
     title |-> <<"L", "i", "s", "t", ":", " ", "W", "o", "r", "k">>,
     id |-> <<"l", "i", "s", "t", "1">>, status |-> <<>>, due |-> <<>>,
     links |-> <<>>],
    \* 9: the row ["Buy milk", "", "needsAction", "", "http://x"]
    [list_title |-> <<>>, title |-> <<"B", "u", "y", " ", "m", "i", "l", "k">>,
     id |-> <<>>,
     status |-> <<"n", "e", "e", "d", "s", "A", "c", "t", "i", "o", "n">>,
     due |-> <<>>, links |-> <<"h", "t", "t", "p", ":", "/", "/", "x">>],
    \* 10: row 8 with the list's name in a list_title cell
    [list_title |-> <<"W", "o", "r", "k">>,
     title |-> <<"L", "i", "s", "t", ":", " ", "W", "o", "r", "k">>,
     id |-> <<"l", "i", "s", "t", "1">>, status |-> <<>>, due |-> <<>>,
     links |-> <<>>],
    \* 11: a task row whose status is a prefix of the word
    [list_title |-> <<"A">>, title |-> <<"n">>, id |-> <<>>,
     status |-> <<" ", "C", "O", "M", "P", "L", "E", "T", "E">>, due |-> <<>>,
     links |-> <<>>],
    \* 12: a list row of the non-batched exporter, naming list A
    [list_title |-> <<"A", " ">>, title |-> <<" ", "L", "I", "S", "T", " ", "A">>,
     id |-> <<>>, status |-> <<>>, due |-> <<>>, links |-> <<>>],
    \* 13: a starred task row that names no list
    [list_title |-> <<>>, title |-> <<"x">>, id |-> <<>>, status |-> <<>>,
     due |-> <<>>,
     links |-> <<"S", "t", "a", "r", "r", "e", "d">>] >>

\* The sheets of at most MaxRows data rows built from the given kinds.
SheetsOver(kinds) == UNION {[1..n -> kinds] : n \in 0..MaxRows}

Sheets == SheetsOver(1..5)

\* The sheets a run with interruptions, restarts and manual invocations is
\* explored on: those of the rows that name a list or make a task.
PlainSheets == SheetsOver({1, 2, 3})

\* One remote task list.
RemoteList(title, id) == [title |-> title, id |-> id]

\* The task lists the remote service holds before the first run.
InitialRemotes == {<<>>, <<RemoteList(<<"A">>, 1)>>}

\* --------------------------------------------------------------- variables

VARIABLES
    sheet,        \* the data rows (row 2 onwards), each the number of its kind
    headers,      \* the names in the header row
    batchSize,    \* BATCH_SIZE of this script
    activeSheetName, \* the name the sheet has now
    variant,      \* which script is installed: "single" or "multi"
    allSheets,    \* multi-sheet script: the sheets of the spreadsheet
    stable,       \* <<>>, or <<p>>: the remote service answers as p says
    props,        \* the script properties: key -> stored text
    triggers,     \* the project's pending triggers: their handler names
    remoteLists,  \* the remote service's task lists, in enumeration order
    reports,      \* the report sheets inserted since the run started
    pc,           \* where the executing invocation is ("idle": none executes)
    loc,          \* the executing invocation's local variables
    slices,       \* history: the slices the run read, while uninterrupted
    taskCalls,    \* history: the run's task creation calls, while uninterrupted
    listCalls,    \* history: the run's list creation calls, while uninterrupted
    crashes,      \* history: where the run was interrupted
    started,      \* history: whether a run was ever started
    inserted,     \* history: per list name, the tasks the remote service has
                  \* accepted since the run started, by status
    wire,         \* history: the last remote call or pause before the row
                  \* processed last, then that row's remote calls and pauses
    parked,       \* the control state and locals of a second execution that
                  \* is in progress while the one in pc and loc runs
    overStale,    \* history: the executing invocation is the first of a
                  \* run that was started over a run in progress
    processedTo,  \* history: the last row the run's loop has gone through
    armedFor,     \* history: the last row of the batch that last rescheduled
    step          \* history: the action taken last

vars == <<sheet, headers, batchSize, activeSheetName, variant, allSheets,
          stable, props, triggers, remoteLists,
          reports, pc, loc, slices, taskCalls, listCalls, crashes, started,
          overStale, processedTo, armedFor, wire, inserted, parked, step>>

env == <<sheet, headers, batchSize, activeSheetName, variant, allSheets,
        stable>>

history == <<slices, taskCalls, listCalls, crashes, started, processedTo, armedFor,
             wire, inserted>>

BATCH_SIZE == batchSize

\* sheet.getLastRow(): row 1 is the header row.
LastRow == Len(sheet) + 1

\* The data row at a row number of the sheet (sheet.getRange(...).getValues()).
RowAt(n) == RowKinds[sheet[n - 1]]

\* headers.indexOf(name) /= -1
HasColumn(name) == name \in headers

\* ------------------------------------------------------- script properties

getProperty(p, key) == IF key \in DOMAIN p THEN p[key] ELSE Null

setProperty(p, key, text) == Put(p, key, text)

deleteProperty(p, key) == [k \in DOMAIN p \ {key} |-> p[k]]

NoProperties == [k \in {} |-> Null]

\* ---------------------------------------------------------------- triggers

IsBatchTrigger(h) == h = SCRIPT_TRIGGER_HANDLER

\* deleteExistingTriggers()
DeleteExistingTriggers(trs) == SelectSeq(trs, LAMBDA h : ~IsBatchTrigger(h))

\* A faulty createTrigger: the old triggers are deleted, none is registered.
CreateTrigger_Unregistered(trs) == DeleteExistingTriggers(trs)

\* A faulty createTrigger: the new trigger is added to the ones that exist.
CreateTrigger_NoCleanup(trs) == Append(trs, SCRIPT_TRIGGER_HANDLER)

\* createTrigger()
CreateTrigger(trs) == Append(DeleteExistingTriggers(trs), SCRIPT_TRIGGER_HANDLER)

\* The pending triggers of the batch runner.
PendingBatchTriggers(trs) == SelectSeq(trs, IsBatchTrigger)

\* The host fires a one-shot trigger: the first pending one of the batch
\* runner is no longer pending.
RECURSIVE RemoveFirstBatchTrigger(_)
RemoveFirstBatchTrigger(trs) ==
    IF trs = <<>> THEN <<>>
    ELSE IF IsBatchTrigger(Head(trs)) THEN Tail(trs)
    ELSE <<Head(trs)>> \o RemoveFirstBatchTrigger(Tail(trs))


\* ---------------------------------------------------- the remote service

\* What the remote service answers to the calls of one row: the list
\* creation, the enumeration after a rejected creation, the task creation.
Outcomes ==
    [create : {"created", "noId", "rejected"},
     list   : {"ok", "fail"},
     insert : {"ok", "fail"}]

\* The identifier the remote service gives its next task list.
NewListId(remote) == Len(remote) + 1

\* The first list of an enumeration whose title is `name`, 0 when none is.
RECURSIVE FindByTitle(_, _)
FindByTitle(remote, name) ==
    IF remote = <<>> THEN 0
    ELSE IF Head(remote).title = name THEN Head(remote).id
    ELSE FindByTitle(Tail(remote), name)

\* taskLists.forEach(list => { taskListCache[list.title] = list.id; })
RECURSIVE MergeLists(_, _)
MergeLists(cache, remote) ==
    IF remote = <<>> THEN cache
    ELSE MergeLists(Put(cache, Head(remote).title, Head(remote).id), Tail(remote))

\* The refresh of the cache before a batch: an enumeration that throws leaves
\* the stored cache as it is.
\* A refresh that never merges the enumeration into the cache.
RefreshCache_StoredOnly(cache, remote, outcome) == cache

RefreshCache(cache, remote, outcome) ==
    IF outcome = "ok" THEN MergeLists(cache, remote) ELSE cache

\* A faulty resolver: the id of a created list is returned, not cached.
GetTaskListIdByName_NoWriteThrough(name, cache, remote, out) ==
    IF name \in DOMAIN cache
    THEN [id |-> cache[name], cache |-> cache, remote |-> remote, calls |-> <<>>]
    ELSE LET call(id) == <<[name |-> name, result |-> out.create, id |-> id]>>
             miss == [id |-> 0, cache |-> cache, remote |-> remote,
                      calls |-> call(0)]
         IN  CASE out.create = "created" ->
                    [id     |-> NewListId(remote),
                     cache  |-> cache,
                     remote |-> Append(remote, RemoteList(name, NewListId(remote))),
                     calls  |-> call(NewListId(remote))]
               [] out.create = "noId" -> miss
               [] OTHER ->
                    IF out.list = "ok" /\ FindByTitle(remote, name) /= 0
                    THEN [id     |-> FindByTitle(remote, name),
                          cache  |-> Put(cache, name, FindByTitle(remote, name)),
                          remote |-> remote,
                          calls  |-> call(FindByTitle(remote, name))]
                    ELSE miss

\* getTaskListIdByName(name, cache): the id it returns (0 for null), the cache
\* and the remote lists afterwards, and the creation call it issued if any
\* (with the name, the service's answer and the id the resolver returned).
\* A resolver that records its failure in the cache.
GetTaskListIdByName_CachesFailure(name, cache, remote, out) ==
    IF name \in DOMAIN cache
    THEN [id |-> cache[name], cache |-> cache, remote |-> remote, calls |-> <<>>]
    ELSE LET call(id) == <<[name |-> name, result |-> out.create, id |-> id]>>
             miss == [id |-> 0, cache |-> Put(cache, name, 0), remote |-> remote,
                      calls |-> call(0)]
         IN  CASE out.create = "created" ->
                    [id     |-> NewListId(remote),
                     cache  |-> Put(cache, name, NewListId(remote)),
                     remote |-> Append(remote, RemoteList(name, NewListId(remote))),
                     calls  |-> call(NewListId(remote))]
               [] out.create = "noId" -> miss
               [] OTHER ->
                    IF out.list = "ok" /\ FindByTitle(remote, name) /= 0
                    THEN [id     |-> FindByTitle(remote, name),
                          cache  |-> Put(cache, name, FindByTitle(remote, name)),
                          remote |-> remote,
                          calls  |-> call(FindByTitle(remote, name))]
                    ELSE miss

GetTaskListIdByName(name, cache, remote, out) ==
    IF name \in DOMAIN cache
    THEN [id |-> cache[name], cache |-> cache, remote |-> remote, calls |-> <<>>]
    ELSE LET call(id) == <<[name |-> name, result |-> out.create, id |-> id]>>
             miss == [id |-> 0, cache |-> cache, remote |-> remote,
                      calls |-> call(0)]
         IN  CASE out.create = "created" ->
                    [id     |-> NewListId(remote),
                     cache  |-> Put(cache, name, NewListId(remote)),
                     remote |-> Append(remote, RemoteList(name, NewListId(remote))),
                     calls  |-> call(NewListId(remote))]
               [] out.create = "noId" -> miss
               [] OTHER ->
                    IF out.list = "ok" /\ FindByTitle(remote, name) /= 0
                    THEN [id     |-> FindByTitle(remote, name),
                          cache  |-> Put(cache, name, FindByTitle(remote, name)),
                          remote |-> remote,
                          calls  |-> call(FindByTitle(remote, name))]
                    ELSE miss

\* ------------------------------------------------------------ one data row

\* `cell ? cell.toString().trim() : null`
TrimmedOrNull(cell) == IF Truthy(cell) THEN Trim(cell) ELSE Null

\* lastKnownListTitle after the row's list cell was looked at.
ListTitleAfter(last, row) ==
    IF Truthy(TrimmedOrNull(row.list_title)) THEN TrimmedOrNull(row.list_title)
    ELSE last

\* finalTaskTitle = taskTitleFromCell || taskIdFromCell
\* A title with no fallback to the id.
FinalTaskTitle_TitleOnly(row) == TrimmedOrNull(row.title)

FinalTaskTitle(row) ==
    LET taskTitleFromCell == TrimmedOrNull(row.title)
        taskIdFromCell == IF HasColumn("id") THEN TrimmedOrNull(row.id) ELSE Null
    IN  IF Truthy(taskTitleFromCell) THEN taskTitleFromCell ELSE taskIdFromCell

\* The three `continue`s of the loop: no list yet, no title, a list
\* definition row.
RowSkipped(taskListName, finalTaskTitle) ==
    \/ ~Truthy(taskListName)
    \/ ~Truthy(finalTaskTitle)
    \/ StartsWith(ToLowerCase(finalTaskTitle), ListPrefix)

\* task.status: "completed", or unset (written <<>>).
\* A status test that compares the cell as it is written.
TaskStatus_CaseSensitive(row) ==
    IF HasColumn("status") /\ Truthy(row.status) /\ Trim(row.status) = completed
    THEN completed ELSE Null

TaskStatus(row) ==
    IF HasColumn("status") /\ Truthy(row.status)
       /\ Trim(ToLowerCase(row.status)) = completed
    THEN completed ELSE Null

\* Tasks.newTask() with the fields the row gives it.
\* new Date(value) of a cell text, for the two kinds of text the rows
\* carry: a date for text of the form yyyy-mm-dd with a month and a day of
\* that month, an invalid date for text that is not of that form.
InvalidDate == [year |-> 0, month |-> 0, day |-> 0]

DaysIn(year, month) ==
    IF month = 2
    THEN IF year % 4 = 0 /\ (year % 100 /= 0 \/ year % 400 = 0) THEN 29 ELSE 28
    ELSE IF month \in {4, 6, 9, 11} THEN 30 ELSE 31

NewDate(text) ==
    IF /\ Len(text) = 10
       /\ text[5] = "-" /\ text[8] = "-"
       /\ \A i \in {1, 2, 3, 4, 6, 7, 9, 10} : DigitValue(text[i]) >= 0
    THEN LET date == [year  |-> ParseInt(SubSeq(text, 1, 4)),
                      month |-> ParseInt(SubSeq(text, 6, 7)),
                      day   |-> ParseInt(SubSeq(text, 9, 10))]
         IN  IF date.month \in 1..12 /\ date.day \in 1..DaysIn(date.year, date.month)
             THEN date ELSE InvalidDate
    ELSE InvalidDate

Pad(n, width) ==
    LET digits == NumberToString(n)
    IN  [i \in 1..(width - Len(digits)) |-> "0"] \o digits

\* date.toISOString() of a date at midnight UTC.
ToISOString(date) ==
    Pad(date.year, 4) \o <<"-">> \o Pad(date.month, 2) \o <<"-">>
        \o Pad(date.day, 2)
        \o <<"T", "0", "0", ":", "0", "0", ":", "0", "0", ".", "0", "0", "0", "Z">>

\* A due field that is the cell's text as it is.
TaskDue_Raw(row) ==
    IF HasColumn("due") /\ Truthy(row.due) THEN row.due ELSE Null

TaskDue(row) ==
    IF HasColumn("due") /\ Truthy(row.due) /\ NewDate(row.due) /= InvalidDate
    THEN ToISOString(NewDate(row.due)) ELSE Null

LinkPrefix == <<"L", "i", "n", "k", ":", " ">>

\* Notes without the prefix.
TaskNotes_Bare(row) ==
    IF HasColumn("links") /\ Truthy(row.links) THEN row.links ELSE Null

TaskNotes(row) ==
    IF HasColumn("links") /\ Truthy(row.links)
    THEN LinkPrefix \o row.links ELSE Null

NewTask(row) ==
    [title |-> FinalTaskTitle(row), status |-> TaskStatus(row),
     due |-> TaskDue(row), notes |-> TaskNotes(row)]

ZeroStats == [completed |-> 0, needsAction |-> 0, total |-> 0]

\* The update of reportData after a task was created.
\* A report update that counts every task as needing action.
UpdateReport_NoStatus(reportData, taskListName, task) ==
    LET stats == IF taskListName \in DOMAIN reportData
                 THEN reportData[taskListName] ELSE ZeroStats
    IN  Put(reportData, taskListName,
            [stats EXCEPT !.needsAction = @ + 1, !.total = @ + 1])

UpdateReport(reportData, taskListName, task) ==
    LET stats == IF taskListName \in DOMAIN reportData
                 THEN reportData[taskListName] ELSE ZeroStats
        counted == IF task.status = completed
                   THEN [stats EXCEPT !.completed = @ + 1]
                   ELSE [stats EXCEPT !.needsAction = @ + 1]
    IN  Put(reportData, taskListName, [counted EXCEPT !.total = @ + 1])

\* A faulty insertion: the exception of a rejected call is not caught.
\* What goes over the wire, in order: remote calls and pauses.
RemoteCall(api) == [op |-> api, ms |-> 0]

Sleep(ms) == [op |-> "Utilities.sleep", ms |-> ms]

\* The calls and pauses of getTaskListIdByName: none on a cache hit; a
\* rejected creation is followed by the backoff and the enumeration.
ResolverWire(name, cache, out) ==
    IF name \in DOMAIN cache THEN <<>>
    ELSE IF out.create = "rejected"
         THEN <<RemoteCall("Tasklists.insert"), Sleep(2000),
                RemoteCall("Tasklists.list")>>
         ELSE <<RemoteCall("Tasklists.insert")>>

\* The insertion and the pause, which is inside the try block after the
\* call and the report update: a call that throws skips it.
InsertWire(outcome) ==
    IF outcome = "ok"
    THEN <<RemoteCall("Tasks.insert"), Sleep(API_DELAY_MS)>>
    ELSE <<RemoteCall("Tasks.insert")>>

TryInsertTask_Uncaught(outcome) ==
    [created |-> outcome = "ok", threw |-> outcome = "fail"]

\* try { Tasks.Tasks.insert(task, id); ... } catch (e) { log }: whether the
\* task was created, and whether an exception left the try statement.
TryInsertTask(outcome) == [created |-> outcome = "ok", threw |-> FALSE]

\* One iteration of the loop over the slice, on row number n: the locals and
\* the remote lists afterwards, the calls issued, and whether the iteration
\* threw out of the loop.
ProcessRow(l, remote, n, out) ==
    LET row == RowAt(n)
        last == ListTitleAfter(l.lastKnownListTitle, row)
        seen == [l EXCEPT !.lastKnownListTitle = last]
        none == [loc |-> seen, remote |-> remote, listCalls |-> <<>>,
                 taskCalls |-> <<>>, threw |-> FALSE, wire |-> <<>>]
        at(calls) == [i \in 1..Len(calls) |->
                        [row |-> n, name |-> calls[i].name,
                         result |-> calls[i].result, id |-> calls[i].id]]
    IN  IF RowSkipped(last, FinalTaskTitle(row)) THEN none
        ELSE LET got == GetTaskListIdByName(last, l.taskListCache, remote, out)
                 cached == [seen EXCEPT !.taskListCache = got.cache]
                 task == NewTask(row)
                 ins == TryInsertTask(out.insert)
                 call == [row |-> n, list |-> last, listId |-> got.id,
                          task |-> task, ok |-> ins.created]
             IN  IF got.id = 0
                 THEN [none EXCEPT !.loc = cached, !.remote = got.remote,
                                   !.listCalls = at(got.calls),
                                   !.wire = ResolverWire(last, l.taskListCache, out)]
                 ELSE [loc |-> IF ins.created
                               THEN [cached EXCEPT !.reportData =
                                        UpdateReport(@, last, task)]
                               ELSE cached,
                       remote |-> got.remote,
                       listCalls |-> at(got.calls),
                       taskCalls |-> <<call>>,
                       threw |-> ins.threw,
                       wire |-> ResolverWire(last, l.taskListCache, out)
                                   \o InsertWire(out.insert)]


\* --------------------------------------------------------- continueProcess

\* The locals of continueProcess; NoLocals while no invocation executes.
NoLocals ==
    [startRow |-> 0, rowsToProcess |-> 0, j |-> 0, taskListCache |-> EmptyObject,
     lastKnownListTitle |-> Null, reportData |-> EmptyObject]

\* A faulty load: the stored cursor is not read, every batch starts at row 2.
StartRow_FromTop(p) == FirstDataRow

\* startRow = parseInt(properties.getProperty(SCRIPT_PROPERTY_ROW), 10) || 2
StartRow(p) == ParseIntOr(getProperty(p, SCRIPT_PROPERTY_ROW), FirstDataRow)

\* reportData = reportDataString ? JSON.parse(reportDataString) : {}
LoadReport(p) ==
    IF Truthy(getProperty(p, SCRIPT_PROPERTY_REPORT))
    THEN JSONparse(getProperty(p, SCRIPT_PROPERTY_REPORT)) ELSE EmptyObject

\* A faulty load: the stored cache is not read back.
LoadCache_Fresh(p) == EmptyObject

\* taskListCache = cacheString ? JSON.parse(cacheString) : {}
LoadCache(p) ==
    IF Truthy(getProperty(p, SCRIPT_PROPERTY_CACHE))
    THEN JSONparse(getProperty(p, SCRIPT_PROPERTY_CACHE)) ELSE EmptyObject

\* A faulty load: the stored list name is not read back.
LoadListTitle_Forgets(p) == Null

\* lastKnownListTitle = properties.getProperty(SCRIPT_PROPERTY_LIST) || null
LoadListTitle(p) == getProperty(p, SCRIPT_PROPERTY_LIST)

Min(a, b) == IF a < b THEN a ELSE b

\* A faulty slice size: the batch size without the bound by the rows left.
RowsToProcess_WholeBatch(startRow, lastRow) == BATCH_SIZE

\* rowsToProcess = Math.min(BATCH_SIZE, lastRow - startRow + 1)
RowsToProcess(startRow, lastRow) == Min(BATCH_SIZE, lastRow - startRow + 1)

\* A faulty cursor: the last row of the slice instead of the row after it.
NextStartRow_LastProcessed(l) == l.startRow + l.rowsToProcess - 1

\* nextStartRow = startRow + rowsToProcess
NextStartRow(l) == l.startRow + l.rowsToProcess

\* Faulty checkpoint writes: the cursor is not stored.
PersistCheckpoint_NoCursor(p, l) ==
    LET p2 == setProperty(p, SCRIPT_PROPERTY_CACHE, JSONstringify(l.taskListCache))
        p3 == setProperty(p2, SCRIPT_PROPERTY_REPORT, JSONstringify(l.reportData))
    IN  IF Truthy(l.lastKnownListTitle)
        THEN setProperty(p3, SCRIPT_PROPERTY_LIST, l.lastKnownListTitle)
        ELSE p3

\* The checkpoint writes at the end of a batch.
PersistCheckpoint(p, l) ==
    LET p1 == setProperty(p, SCRIPT_PROPERTY_ROW, NumberToString(NextStartRow(l)))
        p2 == setProperty(p1, SCRIPT_PROPERTY_CACHE, JSONstringify(l.taskListCache))
        p3 == setProperty(p2, SCRIPT_PROPERTY_REPORT, JSONstringify(l.reportData))
    IN  IF Truthy(l.lastKnownListTitle)
        THEN setProperty(p3, SCRIPT_PROPERTY_LIST, l.lastKnownListTitle)
        ELSE p3

\* A faulty cleanup: the report is left in the script properties.
ClearCheckpoint_KeepsReport(p) ==
    deleteProperty(deleteProperty(deleteProperty(deleteProperty(p,
        SCRIPT_PROPERTY_ROW), SCRIPT_PROPERTY_SHEET_NAME), SCRIPT_PROPERTY_CACHE),
        SCRIPT_PROPERTY_LIST)

\* The five deleteProperty calls.
ClearCheckpoint(p) ==
    deleteProperty(deleteProperty(deleteProperty(deleteProperty(deleteProperty(p,
        SCRIPT_PROPERTY_ROW), SCRIPT_PROPERTY_SHEET_NAME), SCRIPT_PROPERTY_CACHE),
        SCRIPT_PROPERTY_LIST), SCRIPT_PROPERTY_REPORT)

\* The checkpoint createTasksFromCurrentSheet leaves before the first batch.
\* A start that records the source sheet without deleting the stored keys.
FreshCheckpoint_KeepsKeys(p) ==
    setProperty(p, SCRIPT_PROPERTY_SHEET_NAME, activeSheetName)

FreshCheckpoint(p) ==
    setProperty(ClearCheckpoint(p), SCRIPT_PROPERTY_SHEET_NAME, activeSheetName)

\* A faulty test of the source: the recorded name is not looked up.
SourceSheetFound_NameOnly(p) ==
    Truthy(getProperty(p, SCRIPT_PROPERTY_SHEET_NAME))

\* spreadsheet.getSheetByName(sourceSheetName) finds the sheet.
SourceSheetFound(p) ==
    /\ Truthy(getProperty(p, SCRIPT_PROPERTY_SHEET_NAME))
    /\ getProperty(p, SCRIPT_PROPERTY_SHEET_NAME) = activeSheetName

\* A faulty header test: only the 'title' header is required.
RequiredHeaders_TitleOnly == HasColumn("title")

RequiredHeaders == HasColumn("title") /\ HasColumn("list_title")

\* ------------------------------------------------------------------ states

\* The state before the first run, on one of the given sheets.
\* No second execution is in progress.
NoExecution == [pc |-> "idle", loc |-> NoLocals]

InitWith(sheets, headerRows, remotes) ==
    /\ sheet \in sheets
    /\ headers \in headerRows
    /\ batchSize \in 1..MaxBatchSize
    /\ activeSheetName = SheetName
    /\ variant = "single"
    /\ allSheets = <<>>
    /\ props = NoProperties
    /\ triggers = <<OTHER_HANDLER>>
    /\ remoteLists \in remotes
    /\ reports = <<>>
    /\ pc = "idle"
    /\ loc = NoLocals
    /\ slices = <<>>
    /\ taskCalls = <<>>
    /\ listCalls = <<>>
    /\ crashes = <<>>
    /\ started = FALSE
    /\ overStale = FALSE
    /\ wire = <<>>
    /\ inserted = EmptyObject
    /\ parked = NoExecution
    /\ processedTo = FirstDataRow - 1
    /\ armedFor = 0
    /\ step = "Init"

InitOn(sheets) == InitWith(sheets, HeaderRows, InitialRemotes)

Init == InitOn(PlainSheets) /\ stable = <<>>

RunInit == InitOn(Sheets) /\ stable = <<>>

\* ----------------------------------------------------------------- actions

\* The run was not interrupted since it started: its reads and calls are
\* recorded.
Uninterrupted == crashes = <<>>

\* createTasksFromCurrentSheet, up to its call of continueProcess.
CreateTasksFromCurrentSheet ==
    /\ pc = "idle"
    /\ props' = FreshCheckpoint(props)
    /\ triggers' = DeleteExistingTriggers(triggers)
    /\ pc' = "load"
    /\ loc' = NoLocals
    /\ reports' = <<>>
    /\ slices' = <<>>
    /\ taskCalls' = <<>>
    /\ listCalls' = <<>>
    /\ crashes' = <<>>
    /\ started' = TRUE
    /\ overStale' = (PendingBatchTriggers(triggers) /= <<>>
                      /\ SCRIPT_PROPERTY_ROW \in DOMAIN props)
    /\ wire' = <<>>
    /\ inserted' = EmptyObject
    /\ processedTo' = FirstDataRow - 1
    /\ armedFor' = 0
    /\ UNCHANGED parked
    /\ step' = "CreateTasksFromCurrentSheet"
    /\ UNCHANGED <<env, remoteLists>>

\* The host fires the pending one-shot trigger: continueProcess is invoked.
TriggerFires ==
    /\ pc = "idle"
    /\ PendingBatchTriggers(triggers) /= <<>>
    /\ triggers' = RemoveFirstBatchTrigger(triggers)
    /\ pc' = "load"
    /\ UNCHANGED overStale
    /\ UNCHANGED parked
    /\ step' = "TriggerFires"
    /\ UNCHANGED <<env, props, remoteLists, reports, loc, history>>

\* continueProcess is run by hand (from the script editor).
ManualContinue ==
    /\ pc = "idle"
    /\ pc' = "load"
    /\ UNCHANGED overStale
    /\ UNCHANGED parked
    /\ step' = "ManualContinue"
    /\ UNCHANGED <<env, props, triggers, remoteLists, reports, loc, history>>

\* continueProcess: no source sheet is recorded, or it is not found.
AbortNoSource ==
    /\ pc = "load"
    /\ ~SourceSheetFound(props)
    /\ triggers' = DeleteExistingTriggers(triggers)
    /\ pc' = "idle"
    /\ overStale' = FALSE
    /\ UNCHANGED parked
    /\ step' = "AbortNoSource"
    /\ UNCHANGED <<env, props, remoteLists, reports, loc, history>>

\* continueProcess: the cursor is past the last row; the report sheet is
\* inserted and the checkpoint and the triggers are removed.
Finalize ==
    /\ pc = "load"
    /\ SourceSheetFound(props)
    /\ StartRow(props) > LastRow
    /\ reports' = Append(reports, LoadReport(props))
    /\ props' = ClearCheckpoint(props)
    /\ triggers' = DeleteExistingTriggers(triggers)
    /\ pc' = "idle"
    /\ overStale' = FALSE
    /\ UNCHANGED parked
    /\ step' = "Finalize"
    /\ UNCHANGED <<env, remoteLists, loc, history>>

\* continueProcess: a required header is missing.
AbortMissingHeaders ==
    /\ pc = "load"
    /\ SourceSheetFound(props)
    /\ StartRow(props) <= LastRow
    /\ ~RequiredHeaders
    /\ triggers' = DeleteExistingTriggers(triggers)
    /\ pc' = "idle"
    /\ overStale' = FALSE
    /\ UNCHANGED parked
    /\ step' = "AbortMissingHeaders"
    /\ UNCHANGED <<env, props, remoteLists, reports, loc, history>>

\* continueProcess: the checkpoint is loaded, the cache refreshed (the
\* enumeration answers `outcome`) and the slice read.
BeginBatch(outcome) ==
    /\ pc = "load"
    /\ SourceSheetFound(props)
    /\ StartRow(props) <= LastRow
    /\ RequiredHeaders
    /\ loc' = [startRow |-> StartRow(props),
               rowsToProcess |-> RowsToProcess(StartRow(props), LastRow),
               j |-> 0,
               taskListCache |-> RefreshCache(LoadCache(props), remoteLists, outcome),
               lastKnownListTitle |-> LoadListTitle(props),
               reportData |-> LoadReport(props)]
    /\ slices' = IF Uninterrupted
                 THEN Append(slices, <<loc'.startRow, loc'.rowsToProcess>>)
                 ELSE slices
    /\ pc' = "rows"
    /\ wire' = IF Uninterrupted THEN <<RemoteCall("Tasklists.list")>> ELSE <<>>
    /\ UNCHANGED inserted
    /\ UNCHANGED overStale
    /\ UNCHANGED parked
    /\ step' = "BeginBatch"
    /\ UNCHANGED <<env, props, triggers, remoteLists, reports, taskCalls,
                   listCalls, crashes, started, processedTo, armedFor>>

\* The answers the remote service can give to the calls of one row.
RowOutcomes(remote) ==
    {o \in Outcomes : o.create = "created" => Len(remote) < MaxRemoteLists}

\* continueProcess: one iteration of the loop over the slice.
\* The tasks accepted so far and those of a row's calls that succeeded.
Accepted(sofar, calls) ==
    IF calls = <<>> \/ ~calls[1].ok THEN sofar
    ELSE LET name == calls[1].list
             old == IF name \in DOMAIN sofar THEN sofar[name]
                    ELSE [completed |-> 0, others |-> 0]
         IN  Put(sofar, name,
                 IF calls[1].task.status = completed
                 THEN [old EXCEPT !.completed = @ + 1]
                 ELSE [old EXCEPT !.others = @ + 1])

\* The last element of a sequence, as a sequence.
LastOf(s) == IF s = <<>> THEN <<>> ELSE <<s[Len(s)]>>

\* A row step that stores the cursor after each row.
Row_SavesCursor(out) ==
    /\ pc = "rows"
    /\ loc.j < loc.rowsToProcess
    /\ LET r == ProcessRow(loc, remoteLists, loc.startRow + loc.j, out)
       IN  /\ remoteLists' = r.remote
           /\ taskCalls' = IF Uninterrupted THEN taskCalls \o r.taskCalls
                           ELSE taskCalls
           /\ listCalls' = IF Uninterrupted THEN listCalls \o r.listCalls
                           ELSE listCalls
           /\ wire' = IF Uninterrupted THEN LastOf(wire) \o r.wire ELSE <<>>
           /\ inserted' = Accepted(inserted, r.taskCalls)
           /\ IF r.threw
              THEN pc' = "idle" /\ loc' = NoLocals
              ELSE pc' = "rows" /\ loc' = [r.loc EXCEPT !.j = @ + 1]
    /\ processedTo' = loc.startRow + loc.j
    /\ props' = setProperty(props, SCRIPT_PROPERTY_ROW,
                             NumberToString(loc.startRow + loc.j + 1))
    /\ UNCHANGED overStale
    /\ UNCHANGED parked
    /\ step' = "Row"
    /\ UNCHANGED <<env, triggers, reports, slices, crashes, started,
                   armedFor>>

Row(out) ==
    /\ pc = "rows"
    /\ loc.j < loc.rowsToProcess
    /\ LET r == ProcessRow(loc, remoteLists, loc.startRow + loc.j, out)
       IN  /\ remoteLists' = r.remote
           /\ taskCalls' = IF Uninterrupted THEN taskCalls \o r.taskCalls
                           ELSE taskCalls
           /\ listCalls' = IF Uninterrupted THEN listCalls \o r.listCalls
                           ELSE listCalls
           /\ wire' = IF Uninterrupted THEN LastOf(wire) \o r.wire ELSE <<>>
           /\ inserted' = Accepted(inserted, r.taskCalls)
           /\ IF r.threw
              THEN pc' = "idle" /\ loc' = NoLocals
              ELSE pc' = "rows" /\ loc' = [r.loc EXCEPT !.j = @ + 1]
    /\ processedTo' = loc.startRow + loc.j
    /\ UNCHANGED overStale
    /\ UNCHANGED parked
    /\ step' = "Row"
    /\ UNCHANGED <<env, props, triggers, reports, slices, crashes, started,
                   armedFor>>

\* continueProcess: the checkpoint is written after the loop.
Persist ==
    /\ pc = "rows"
    /\ loc.j = loc.rowsToProcess
    /\ props' = PersistCheckpoint(props, loc)
    /\ pc' = "reschedule"
    /\ overStale' = FALSE
    /\ UNCHANGED parked
    /\ step' = "Persist"
    /\ UNCHANGED <<env, triggers, remoteLists, reports, loc, history>>

\* continueProcess: createTrigger(), and the invocation returns.
Reschedule ==
    /\ pc = "reschedule"
    /\ triggers' = CreateTrigger(triggers)
    /\ armedFor' = NextStartRow(loc) - 1
    /\ pc' = "idle"
    /\ loc' = NoLocals
    /\ UNCHANGED <<overStale, wire, inserted>>
    /\ UNCHANGED parked
    /\ step' = "Reschedule"
    /\ UNCHANGED <<env, props, remoteLists, reports, slices, taskCalls,
                   listCalls, crashes, started, processedTo>>

\* The host ends the executing invocation (its time limit, a failure of the
\* host): the locals are lost, what was written stays.
Crash ==
    /\ pc \in {"rows", "reschedule"}
    /\ Len(crashes) < MaxCrashes
    /\ crashes' = Append(crashes, pc)
    /\ pc' = "idle"
    /\ loc' = NoLocals
    /\ slices' = <<>>
    /\ taskCalls' = <<>>
    /\ listCalls' = <<>>
    /\ wire' = <<>>
    /\ UNCHANGED inserted
    /\ overStale' = FALSE
    /\ UNCHANGED parked
    /\ step' = "Crash"
    /\ UNCHANGED <<env, props, triggers, remoteLists, reports, started,
                   processedTo, armedFor>>

Next ==
    \/ CreateTasksFromCurrentSheet
    \/ TriggerFires
    \/ ManualContinue
    \/ AbortNoSource
    \/ Finalize
    \/ AbortMissingHeaders
    \/ \E outcome \in {"ok", "fail"} : BeginBatch(outcome)
    \/ \E out \in RowOutcomes(remoteLists) : Row(out)
    \/ Persist
    \/ Reschedule
    \/ Crash

Spec == Init /\ [][Next]_vars


\* A step of the executing invocation of continueProcess.
InvocationStep ==
    \/ Finalize
    \/ AbortMissingHeaders
    \/ \E outcome \in {"ok", "fail"} : BeginBatch(outcome)
    \/ \E out \in RowOutcomes(remoteLists) : Row(out)
    \/ Persist
    \/ Reschedule

\* One run that is neither restarted nor interrupted: started once from the
\* menu and continued by its triggers only.
RunNext ==
    \/ ~started /\ CreateTasksFromCurrentSheet
    \/ TriggerFires
    \/ InvocationStep

\* Every pending trigger fires and an invocation that was entered runs on.
RunSpec ==
    RunInit /\ [][RunNext]_vars /\ WF_vars(TriggerFires) /\ WF_vars(InvocationStep)

\* The same run on the plain sheets, with no remote list at the start.
LiveInit == Init /\ remoteLists = <<>>

LiveSpec ==
    LiveInit /\ [][RunNext]_vars /\ WF_vars(TriggerFires) /\ WF_vars(InvocationStep)

\* A remote service that does not change by itself and answers the same
\* request in the same way each time: the enumeration of the lists always
\* succeeds or always fails, a creation of a list is always answered the same
\* way (and rejected once MaxRemoteLists lists exist), and the creation of a
\* task is rejected for the titles in `rejects`.  lists0 are the lists that
\* exist when the run starts.
Profiles ==
    [list : {"ok", "fail"}, create : {"created", "noId", "rejected"},
     rejects : {{}, {<<"u">>}}, lists0 : InitialRemotes]

\* The answers of the stable service p to the calls made for `row`.
StableOutcome(p, remote, row) ==
    [create |-> IF p.create = "created" /\ Len(remote) >= MaxRemoteLists
                THEN "rejected" ELSE p.create,
     list   |-> p.list,
     insert |-> IF FinalTaskTitle(row) \in p.rejects THEN "fail" ELSE "ok"]

StableInit ==
    /\ InitOn(Sheets)
    /\ stable \in {<<p>> : p \in Profiles}
    /\ remoteLists = stable[1].lists0

\* One uninterrupted run against the stable service.
StableNext ==
    \/ ~started /\ CreateTasksFromCurrentSheet
    \/ TriggerFires
    \/ Finalize
    \/ AbortMissingHeaders
    \/ BeginBatch(stable[1].list)
    \/ /\ pc = "rows"
       /\ loc.j < loc.rowsToProcess
       /\ Row(StableOutcome(stable[1], remoteLists, RowAt(loc.startRow + loc.j)))
    \/ Persist
    \/ Reschedule

StableSpec == StableInit /\ [][StableNext]_vars

\* The user renames the sheet while no invocation executes; the name the
\* checkpoint records then finds no sheet.
\* The host does not serialize executions: the menu item can be used while
\* an execution of continueProcess is in progress, and the script takes no
\* lock.  The execution in progress is set aside and goes on later.
StartWhileRunning ==
    /\ pc /= "idle"
    /\ parked = NoExecution
    /\ Len(crashes) < MaxCrashes
    /\ parked' = [pc |-> pc, loc |-> loc]
    /\ props' = FreshCheckpoint(props)
    /\ triggers' = DeleteExistingTriggers(triggers)
    /\ pc' = "load"
    /\ loc' = NoLocals
    /\ crashes' = Append(crashes, "overlap")
    /\ slices' = <<>>
    /\ taskCalls' = <<>>
    /\ listCalls' = <<>>
    /\ wire' = <<>>
    /\ inserted' = EmptyObject
    /\ step' = "StartWhileRunning"
    /\ UNCHANGED <<env, remoteLists, reports, started, overStale, processedTo,
                   armedFor>>

\* The host runs the other of two executions in progress, or goes on with
\* the one set aside after the other has ended.
Switch ==
    /\ parked /= NoExecution
    /\ pc' = parked.pc
    /\ loc' = parked.loc
    /\ parked' = [pc |-> pc, loc |-> loc]
    /\ step' = "Switch"
    /\ UNCHANGED <<env, props, triggers, remoteLists, reports, history, overStale>>

ConcurrentNext ==
    \/ ~started /\ CreateTasksFromCurrentSheet
    \/ TriggerFires
    \/ AbortNoSource
    \/ InvocationStep
    \/ StartWhileRunning
    \/ Switch

ConcurrentSpec == LiveInit /\ [][ConcurrentNext]_vars

\* The remote service is shared: between two executions another client
\* (another run, the user) creates a list, possibly one more of a name
\* that exists.
OtherClientCreatesList ==
    /\ pc = "idle"
    /\ Len(remoteLists) < MaxRemoteLists
    /\ \E name \in {<<"A">>, <<"B">>} :
          remoteLists' = Append(remoteLists,
                                RemoteList(name, NewListId(remoteLists)))
    /\ step' = "OtherClientCreatesList"
    /\ UNCHANGED <<env, props, triggers, reports, pc, loc, history, overStale,
                   parked>>

RefreshNext ==
    \/ RunNext
    \/ OtherClientCreatesList

RefreshSpec == Init /\ [][RefreshNext]_vars

\* Runs on sheets that have the due and links columns, or lack the due
\* column or the title column, with rows that carry a date, text that is
\* no date, or nothing.
DueSheets == SheetsOver({1, 6, 7})

DueInit ==
    /\ InitWith(DueSheets,
                {ExportHeaderNames, ExportHeaderNames \ {"due"},
                 ExportHeaderNames \ {"title"}},
                InitialRemotes)
    /\ stable = <<>>

DueSpec == DueInit /\ [][RunNext]_vars

\* The two-row scenario: the rows as five cells under title, id, status,
\* due, links, on a sheet without and with a list_title column, and the
\* rows with the list's name in the list_title cell of the first; the
\* remote service has no list, another list, or the list already.
Work == <<"W", "o", "r", "k">>

ScenarioSheets == {<<8, 9>>, <<10, 9>>}

ScenarioInit ==
    /\ InitWith(ScenarioSheets,
                {ExportHeaderNames, ExportHeaderNames \ {"list_title"}},
                InitialRemotes \cup {<<RemoteList(Work, 1)>>})
    /\ stable = <<>>

ScenarioSpec == ScenarioInit /\ [][RunNext]_vars

\* Runs on sheets with the status column, or without it or without the
\* title column, whose rows have the status "Completed ", "completed",
\* "needsAction", " COMPLETE" or none.
StatusSheets == SheetsOver({1, 2, 7, 9, 11})

StatusInit ==
    /\ InitWith(StatusSheets,
                {ExportHeaderNames, ExportHeaderNames \ {"status"},
                 ExportHeaderNames \ {"title"}},
                {<<>>})
    /\ stable = <<>>

StatusSpec == StatusInit /\ [][RunNext]_vars

\* Runs with interruptions, restarts and manual invocations on sheets of
\* task rows, when the remote service starts with no list.
InterruptInit ==
    /\ InitWith(SheetsOver({1, 2}), {HeaderNames, HeaderNames \ {"title"}},
                {<<>>})
    /\ stable = <<>>

InterruptSpec == InterruptInit /\ [][Next]_vars

RenameSheet ==
    /\ pc = "idle"
    /\ activeSheetName = SheetName
    /\ activeSheetName' = RenamedSheetName
    /\ UNCHANGED overStale
    /\ UNCHANGED parked
    /\ step' = "RenameSheet"
    /\ UNCHANGED <<sheet, headers, batchSize, variant, allSheets, stable,
                   props, triggers, remoteLists, reports, pc, loc, history>>

\* Runs that are started, continued by their triggers or by hand, and whose
\* sheet may be renamed between two invocations.
RenameNext ==
    \/ CreateTasksFromCurrentSheet
    \/ TriggerFires
    \/ ManualContinue
    \/ AbortNoSource
    \/ InvocationStep
    \/ RenameSheet

RenameSpec == Init /\ [][RenameNext]_vars

\* ------------------------------------------------- the multi-sheet script

\* The sheets the spreadsheet of the multi-sheet script is made of: with or
\* without the 'title' header, and with no, one or two data rows.
SampleSheets ==
    [headers : {HeaderNames, HeaderNames \ {"title"}},
     rows : {<<>>, <<1>>, <<2>>, <<1, 2>>}]

Spreadsheets == UNION {[1..n -> SampleSheets] : n \in 1..MaxSheets}

\* currentSheetIndex = parseInt(getProperty(SCRIPT_PROPERTY_SHEET), 10) || 0
CurrentSheetIndex(p) == ParseIntOr(getProperty(p, SCRIPT_PROPERTY_SHEET), 0)

\* allSheets[currentSheetIndex], the index counted from 0.
SheetAtIndex(i) == allSheets[i + 1]

\* sheet.getLastRow() of a sheet of the spreadsheet.
LastRowOf(sh) == Len(sh.rows) + 1

\* The required headers are in the header row of the sheet.
RequiredHeadersOf(sh) == "title" \in sh.headers /\ "list_title" \in sh.headers

\* The four deleteProperty calls of the multi-sheet script.
MultiClearCheckpoint(p) ==
    deleteProperty(deleteProperty(deleteProperty(deleteProperty(p,
        SCRIPT_PROPERTY_ROW), SCRIPT_PROPERTY_SHEET), SCRIPT_PROPERTY_CACHE),
        SCRIPT_PROPERTY_LIST)

\* The checkpoint after a sheet whose rows are all read.
MultiNextSheet_KeepsList(p) ==
    deleteProperty(
        setProperty(p, SCRIPT_PROPERTY_SHEET,
                    NumberToString(CurrentSheetIndex(p) + 1)),
        SCRIPT_PROPERTY_ROW)

MultiNextSheet(p) ==
    deleteProperty(deleteProperty(
        setProperty(p, SCRIPT_PROPERTY_SHEET,
                    NumberToString(CurrentSheetIndex(p) + 1)),
        SCRIPT_PROPERTY_ROW), SCRIPT_PROPERTY_LIST)

\* The checkpoint after a sheet that lacks a required header.
MultiSkippedSheet(p) ==
    deleteProperty(
        setProperty(p, SCRIPT_PROPERTY_SHEET,
                    NumberToString(CurrentSheetIndex(p) + 1)),
        SCRIPT_PROPERTY_ROW)

\* The checkpoint writes at the end of a batch of the multi-sheet script;
\* currentSheetIndex is the index the invocation loaded.
MultiPersistCheckpoint(p, l) ==
    LET p1 == setProperty(p, SCRIPT_PROPERTY_ROW, NumberToString(NextStartRow(l)))
        p2 == setProperty(p1, SCRIPT_PROPERTY_SHEET,
                          NumberToString(CurrentSheetIndex(p)))
        p3 == setProperty(p2, SCRIPT_PROPERTY_CACHE, JSONstringify(l.taskListCache))
    IN  IF Truthy(l.lastKnownListTitle)
        THEN setProperty(p3, SCRIPT_PROPERTY_LIST, l.lastKnownListTitle)
        ELSE p3

MultiInit ==
    /\ variant = "multi"
    /\ allSheets \in Spreadsheets
    /\ sheet = allSheets[1].rows
    /\ headers = allSheets[1].headers
    /\ batchSize \in 1..MaxBatchSize
    /\ activeSheetName = SheetName
    /\ stable = <<>>
    /\ props = NoProperties
    /\ triggers = <<OTHER_HANDLER>>
    /\ remoteLists = <<>>
    /\ reports = <<>>
    /\ pc = "idle"
    /\ loc = NoLocals
    /\ slices = <<>>
    /\ taskCalls = <<>>
    /\ listCalls = <<>>
    /\ crashes = <<>>
    /\ started = FALSE
    /\ overStale = FALSE
    /\ wire = <<>>
    /\ inserted = EmptyObject
    /\ parked = NoExecution
    /\ processedTo = FirstDataRow - 1
    /\ armedFor = 0
    /\ step = "Init"

\* createTasksFromAllSheets, up to its call of continueProcess.
CreateTasksFromAllSheets ==
    /\ pc = "idle"
    /\ props' = MultiClearCheckpoint(props)
    /\ triggers' = DeleteExistingTriggers(triggers)
    /\ pc' = "load"
    /\ loc' = NoLocals
    /\ reports' = <<>>
    /\ slices' = <<>>
    /\ taskCalls' = <<>>
    /\ listCalls' = <<>>
    /\ crashes' = <<>>
    /\ started' = TRUE
    /\ overStale' = (PendingBatchTriggers(triggers) /= <<>>
                      /\ SCRIPT_PROPERTY_ROW \in DOMAIN props)
    /\ wire' = <<>>
    /\ inserted' = EmptyObject
    /\ processedTo' = FirstDataRow - 1
    /\ armedFor' = 0
    /\ UNCHANGED parked
    /\ step' = "CreateTasksFromAllSheets"
    /\ UNCHANGED <<env, remoteLists>>

\* continueProcess (multi-sheet): the index is past the last sheet.
MultiAllDone ==
    /\ pc = "load"
    /\ CurrentSheetIndex(props) >= Len(allSheets)
    /\ props' = MultiClearCheckpoint(props)
    /\ triggers' = DeleteExistingTriggers(triggers)
    /\ pc' = "idle"
    /\ overStale' = FALSE
    /\ UNCHANGED parked
    /\ step' = "MultiAllDone"
    /\ UNCHANGED <<env, remoteLists, reports, loc, history>>

\* continueProcess (multi-sheet): the cursor is past the last row of the
\* sheet in progress.
MultiSheetDone ==
    /\ pc = "load"
    /\ CurrentSheetIndex(props) < Len(allSheets)
    /\ StartRow(props) > LastRowOf(SheetAtIndex(CurrentSheetIndex(props)))
    /\ props' = MultiNextSheet(props)
    /\ triggers' = CreateTrigger(triggers)
    /\ pc' = "idle"
    /\ overStale' = FALSE
    /\ UNCHANGED parked
    /\ step' = "MultiSheetDone"
    /\ UNCHANGED <<env, remoteLists, reports, loc, history>>

\* continueProcess (multi-sheet): the sheet in progress lacks a required
\* header.
MultiSkipSheet ==
    /\ pc = "load"
    /\ CurrentSheetIndex(props) < Len(allSheets)
    /\ StartRow(props) <= LastRowOf(SheetAtIndex(CurrentSheetIndex(props)))
    /\ ~RequiredHeadersOf(SheetAtIndex(CurrentSheetIndex(props)))
    /\ props' = MultiSkippedSheet(props)
    /\ triggers' = CreateTrigger(triggers)
    /\ pc' = "idle"
    /\ overStale' = FALSE
    /\ UNCHANGED parked
    /\ step' = "MultiSkipSheet"
    /\ UNCHANGED <<env, remoteLists, reports, loc, history>>

\* continueProcess (multi-sheet): the sheet in progress is taken, the
\* checkpoint loaded, the cache refreshed and the slice read.
MultiBeginBatch(outcome) ==
    /\ pc = "load"
    /\ CurrentSheetIndex(props) < Len(allSheets)
    /\ LET sh == SheetAtIndex(CurrentSheetIndex(props))
       IN  /\ StartRow(props) <= LastRowOf(sh)
           /\ RequiredHeadersOf(sh)
           /\ sheet' = sh.rows
           /\ headers' = sh.headers
           /\ loc' = [startRow |-> StartRow(props),
                      rowsToProcess |-> RowsToProcess(StartRow(props), LastRowOf(sh)),
                      j |-> 0,
                      taskListCache |->
                          RefreshCache(LoadCache(props), remoteLists, outcome),
                      lastKnownListTitle |-> LoadListTitle(props),
                      reportData |-> EmptyObject]
    /\ slices' = Append(slices, <<loc'.startRow, loc'.rowsToProcess>>)
    /\ pc' = "rows"
    /\ wire' = <<RemoteCall("Tasklists.list")>>
    /\ UNCHANGED inserted
    /\ UNCHANGED overStale
    /\ UNCHANGED parked
    /\ step' = "MultiBeginBatch"
    /\ UNCHANGED <<batchSize, activeSheetName, variant, allSheets, stable,
                   props, triggers, remoteLists, reports, taskCalls,
                   listCalls, crashes, started, processedTo, armedFor>>

\* continueProcess (multi-sheet): the checkpoint is written after the loop.
MultiPersist ==
    /\ pc = "rows"
    /\ loc.j = loc.rowsToProcess
    /\ props' = MultiPersistCheckpoint(props, loc)
    /\ pc' = "reschedule"
    /\ overStale' = FALSE
    /\ UNCHANGED parked
    /\ step' = "MultiPersist"
    /\ UNCHANGED <<env, triggers, remoteLists, reports, loc, history>>

\* One run of the multi-sheet script, neither restarted nor interrupted.
MultiNext ==
    \/ ~started /\ CreateTasksFromAllSheets
    \/ TriggerFires
    \/ MultiAllDone
    \/ MultiSheetDone
    \/ MultiSkipSheet
    \/ \E outcome \in {"ok", "fail"} : MultiBeginBatch(outcome)
    \/ \E out \in RowOutcomes(remoteLists) : Row(out)
    \/ MultiPersist
    \/ Reschedule

MultiSpec == MultiInit /\ [][MultiNext]_vars

\* One run of either script.
BothInit == RunInit \/ MultiInit

BothNext ==
    \/ variant = "single" /\ RunNext
    \/ variant = "multi" /\ MultiNext

BothSpec == BothInit /\ [][BothNext]_vars

-----------------------------------------------------------------------------
(* Properties of the batch runner.                                          *)

\* The rows of a slice <<first row, number of rows>>.
RowsOf(slice) == slice[1]..(slice[1] + slice[2] - 1)

\* The batches of the run that read row n.
BatchesReading(n) == {i \in 1..Len(slices) : n \in RowsOf(slices[i])}

\* The run has ended with its report.
Finalized == step = "Finalize"

\* C1: in a run that is not interrupted, the first batch starts at row 2,
\* every batch reads at least one row and starts at the row after the last
\* row of the batch before it, no row is read by two batches, and when the
\* run finalizes every row from 2 through lastRow was read by exactly one
\* batch.
C1_EveryRowReadOnce ==
    /\ slices /= <<>> => slices[1][1] = FirstDataRow
    /\ \A i \in 1..Len(slices) : slices[i][2] >= 1
    /\ \A i \in 2..Len(slices) : slices[i][1] = slices[i-1][1] + slices[i-1][2]
    /\ \A n \in FirstDataRow..LastRow : Cardinality(BatchesReading(n)) <= 1
    /\ Finalized =>
         \A n \in FirstDataRow..LastRow : Cardinality(BatchesReading(n)) = 1

\* A run of two batches or more has finalized.
C1_Witness == Finalized /\ Len(slices) >= 2 /\ LastRow >= FirstDataRow + 1

\* C2: the slice of a batch starts at the cursor the invocation loaded, is
\* not empty, holds at most BATCH_SIZE rows and ends at lastRow or before;
\* while the rows are processed the stored cursor is the loaded one, and the
\* cursor the batch stores is strictly greater.
C2_CursorAdvances ==
    /\ pc \in {"rows", "reschedule"} =>
         /\ loc.startRow >= FirstDataRow
         /\ loc.rowsToProcess >= 1
         /\ loc.rowsToProcess <= BATCH_SIZE
         /\ loc.startRow + loc.rowsToProcess - 1 <= LastRow
         /\ loc.j <= loc.rowsToProcess
    /\ pc = "rows" => StartRow(props) = loc.startRow
    /\ pc = "reschedule" =>
         /\ StartRow(props) > loc.startRow
         /\ StartRow(props) = loc.startRow + loc.rowsToProcess

\* A batch that is cut by lastRow, not by BATCH_SIZE, has stored its cursor.
C2_Witness ==
    /\ pc = "reschedule"
    /\ loc.rowsToProcess < BATCH_SIZE
    /\ StartRow(props) = LastRow + 1

\* The terminal state of a run: no invocation executes, no checkpoint key is
\* stored, no continuation is pending and one report was emitted.
Terminal ==
    /\ pc = "idle"
    /\ DOMAIN props = {}
    /\ PendingBatchTriggers(triggers) = <<>>
    /\ Len(reports) = 1

\* C3: a run that was started on a sheet with the required headers, whose
\* triggers fire and which is not interrupted, reaches the terminal state
\* and stays there; the report is never emitted a second time.
C3_RunTerminates ==
    /\ [](Len(reports) <= 1)
    /\ (started /\ RequiredHeaders) ~> []Terminal

\* A run of two batches that made a task call is in its terminal state.
C3_Witness == Terminal /\ Len(slices) >= 2 /\ taskCalls /= <<>>

\* C4 as it is stated: an invocation schedules a further invocation only
\* when rows remain, so the batch that moves the cursor past lastRow ends
\* without a pending continuation.
C4_ScheduledOnlyWhenRowsRemain ==
    step = "Reschedule" => StartRow(props) <= LastRow

\* C4, as the code has it: every batch that completes, the one that moves
\* the cursor past lastRow included, stores its checkpoint, emits no report
\* and leaves exactly one continuation pending; the run is finalized by the
\* invocation after the batch that reached lastRow, which reads no row,
\* removes every checkpoint key and every continuation and emits the report.
C4_NextInvocationFinalizes ==
    /\ step = "Reschedule" =>
         /\ Len(PendingBatchTriggers(triggers)) = 1
         /\ SCRIPT_PROPERTY_ROW \in DOMAIN props
         /\ StartRow(props) = armedFor + 1
         /\ reports = <<>>
    /\ step = "Finalize" =>
         /\ Terminal
         /\ processedTo = LastRow
         /\ armedFor = IF LastRow >= FirstDataRow THEN LastRow ELSE 0
         /\ \A i \in 1..Len(slices) : slices[i][1] <= LastRow

\* The invocation after the batch that reached lastRow has finalized a run
\* that made a task call.
C4_Witness ==
    /\ step = "Finalize"
    /\ armedFor = LastRow
    /\ Len(slices) >= 1
    /\ taskCalls /= <<>>

\* The steps that end with deleteExistingTriggers.
CancelSteps ==
    {"CreateTasksFromCurrentSheet", "AbortNoSource", "Finalize",
     "AbortMissingHeaders"}

\* C5: whatever the invocations did, one after the other, at most one
\* trigger of the continueProcess handler is pending; exactly one is
\* pending right after createTrigger and none right after
\* deleteExistingTriggers, and the triggers of other handlers are kept.
C5_AtMostOneTrigger ==
    /\ Len(PendingBatchTriggers(triggers)) <= 1
    /\ step = "Reschedule" => Len(PendingBatchTriggers(triggers)) = 1
    /\ step \in CancelSteps => Len(PendingBatchTriggers(triggers)) = 0
    /\ DeleteExistingTriggers(triggers) = <<OTHER_HANDLER>>

\* An invocation run by hand is about to call createTrigger while the
\* trigger of an earlier batch is still pending.
C5_Witness ==
    /\ pc = "reschedule"
    /\ Len(PendingBatchTriggers(triggers)) = 1
    /\ armedFor >= FirstDataRow

\* Every interruption so far came between the checkpoint writes and
\* createTrigger.
CrashedAfterPersistOnly == \A i \in 1..Len(crashes) : crashes[i] = "reschedule"

\* C6: when createTrigger is reached the advanced cursor, the cache, the
\* report and the last list name are stored; while a trigger created by a
\* batch is pending the stored cursor is past the slice of that batch; and
\* if the run, not yet finalized, was interrupted only between the writes
\* and createTrigger, an invocation starts at the row after the last row
\* processed.
C6_PersistBeforeReschedule ==
    /\ pc = "reschedule" =>
         /\ StartRow(props) = NextStartRow(loc)
         /\ LoadCache(props) = loc.taskListCache
         /\ LoadReport(props) = loc.reportData
         /\ LoadListTitle(props) = loc.lastKnownListTitle
    /\ PendingBatchTriggers(triggers) /= <<>> => StartRow(props) > armedFor
    /\ (started /\ CrashedAfterPersistOnly /\ SourceSheetFound(props)) =>
         /\ pc \in {"idle", "load"} => StartRow(props) = processedTo + 1
         /\ pc = "rows" => loc.startRow + loc.j = processedTo + 1

\* After an interruption between the writes and createTrigger, an
\* invocation run by hand (no trigger is pending) has started on the first
\* row that was not processed.
C6_Witness ==
    /\ crashes = <<"reschedule">>
    /\ pc = "rows"
    /\ loc.j = 0
    /\ loc.startRow > FirstDataRow
    /\ loc.startRow = processedTo + 1
    /\ PendingBatchTriggers(triggers) = <<>>

\* The export of the whole sheet by one invocation, against the stable
\* service p: the cache is refreshed once, then the rows from n on are
\* processed one after the other with the same locals.
RECURSIVE PassFrom(_, _, _)
PassFrom(p, acc, n) ==
    IF n > LastRow THEN acc
    ELSE LET r == ProcessRow(acc.loc, acc.remote, n,
                             StableOutcome(p, acc.remote, RowAt(n)))
         IN  PassFrom(p, [loc |-> r.loc, remote |-> r.remote,
                          taskCalls |-> acc.taskCalls \o r.taskCalls], n + 1)

SinglePass(p) ==
    PassFrom(p,
             [loc |-> [NoLocals EXCEPT !.taskListCache =
                          RefreshCache(EmptyObject, p.lists0, p.list)],
              remote |-> p.lists0,
              taskCalls |-> <<>>],
             FirstDataRow)

\* C7: against a service that does not change by itself, a run in batches
\* of any size ends with the report, the sequence of task-creation calls
\* (row, list, list id, task, answer) and the remote lists that one
\* invocation processing the whole sheet produces.
C7_BatchesEqualSinglePass ==
    Finalized =>
        /\ reports = <<SinglePass(stable[1]).loc.reportData>>
        /\ taskCalls = SinglePass(stable[1]).taskCalls
        /\ remoteLists = SinglePass(stable[1]).remote

\* A run of two batches, each with a task-creation call, the second for a
\* row whose list is named in the first batch, has finalized.
C7_Witness ==
    /\ Finalized
    /\ Len(slices) = 2
    /\ Len(taskCalls) = 2
    /\ RowAt(taskCalls[2].row).list_title = <<>>
    /\ reports /= <<EmptyObject>>

\* The most recent list value at or before row n in document order: the
\* trimmed content of the nearest list cell that is not blank; Null if
\* there is none.
RECURSIVE ListValueAt(_)
ListValueAt(n) ==
    IF n < FirstDataRow THEN Null
    ELSE IF Truthy(Trim(RowAt(n).list_title)) THEN Trim(RowAt(n).list_title)
    ELSE ListValueAt(n - 1)

\* Row n names a task: it has a title or an id, and is no list definition.
IsTaskRow(n) ==
    /\ Truthy(FinalTaskTitle(RowAt(n)))
    /\ ~StartsWith(ToLowerCase(FinalTaskTitle(RowAt(n))), ListPrefix)

\* C8: in a run split into batches in any way, every task-creation call and
\* every list-creation call made for a row names the most recent list value
\* at or before that row, so no call is made for a row without one; and
\* every processed task row with such a value was submitted to that list,
\* unless the list could not be resolved.
C8_ListCarriedForward ==
    /\ \A i \in 1..Len(taskCalls) :
         /\ Truthy(taskCalls[i].list)
         /\ taskCalls[i].list = ListValueAt(taskCalls[i].row)
    /\ \A i \in 1..Len(listCalls) :
         /\ Truthy(listCalls[i].name)
         /\ listCalls[i].name = ListValueAt(listCalls[i].row)
    /\ \A n \in FirstDataRow..processedTo :
         (IsTaskRow(n) /\ Truthy(ListValueAt(n))) =>
            \/ \E i \in 1..Len(taskCalls) : taskCalls[i].row = n
            \/ \E i \in 1..Len(listCalls) :
                 listCalls[i].row = n /\ listCalls[i].id = 0

\* The first row of the second batch has no list cell of its own and was
\* submitted to the list named in the first batch.
C8_Witness ==
    /\ Len(slices) >= 2
    /\ \E i \in 1..Len(taskCalls) :
         /\ taskCalls[i].row = slices[2][1]
         /\ ~Truthy(RowAt(taskCalls[i].row).list_title)
         /\ taskCalls[i].list = ListValueAt(slices[1][1])

\* C9 as it is stated: whatever the resolver answered, no list name is the
\* subject of two list-creation calls.
C9_OneCreatePerName ==
    \A i, k \in 1..Len(listCalls) :
        listCalls[i].name = listCalls[k].name => i = k

\* C9, as the code has it: once a call of the resolver has returned an id
\* for a name, no later call for that name creates a list; a creation call
\* is repeated for a name only after calls that returned no id, and such a
\* call leaves the name out of the cache.
C9_NoCreateOnceResolved ==
    /\ \A i, k \in 1..Len(listCalls) :
         (i < k /\ listCalls[i].name = listCalls[k].name) => listCalls[i].id = 0
    /\ \A i \in 1..Len(listCalls) : \A k \in 1..Len(taskCalls) :
         taskCalls[k].list = listCalls[i].name =>
            taskCalls[k].row >= listCalls[i].row
    /\ \A i \in 1..Len(listCalls) :
         (step = "Row" /\ listCalls[i].row = processedTo) =>
            (listCalls[i].id = 0 <=>
                listCalls[i].name \notin DOMAIN loc.taskListCache)

\* Two rows were submitted to a list that the first of them created: the
\* second call of the resolver was answered from the cache.
C9_Witness ==
    /\ Len(listCalls) = 1
    /\ listCalls[1].result = "created"
    /\ Len(taskCalls) = 2
    /\ taskCalls[1].list = listCalls[1].name
    /\ taskCalls[2].list = listCalls[1].name
    /\ taskCalls[2].listId = listCalls[1].id

\* C10: whatever the remote service answers for a row, the loop goes on
\* with the next row of the slice; at the end of the slice every row of it
\* was gone through in order, the cursor is stored advanced by the size of
\* the slice, and one continuation is registered.
C10_FailuresDoNotAbort ==
    /\ step = "Row" => pc = "rows" /\ loc.j >= 1
    /\ pc = "rows" => processedTo = loc.startRow + loc.j - 1
    /\ pc = "reschedule" =>
         /\ processedTo = loc.startRow + loc.rowsToProcess - 1
         /\ StartRow(props) = loc.startRow + loc.rowsToProcess
    /\ step = "Reschedule" =>
         /\ StartRow(props) = processedTo + 1
         /\ Len(PendingBatchTriggers(triggers)) = 1

\* A batch of two rows has ended with its continuation registered, though
\* the list of its first row could not be resolved and the task of its
\* second row was rejected.
C10_Witness ==
    /\ step = "Reschedule"
    /\ slices = << <<FirstDataRow, 2>> >>
    /\ \E i \in 1..Len(listCalls) :
         listCalls[i].row = FirstDataRow /\ listCalls[i].id = 0
    /\ \E k \in 1..Len(taskCalls) :
         taskCalls[k].row = FirstDataRow + 1 /\ ~taskCalls[k].ok
    /\ StartRow(props) = FirstDataRow + 2

\* The task-creation calls recorded for row n.
CallsForRow(calls, n) == {i \in 1..Len(calls) : calls[i].row = n}

\* C11: in a run that is neither restarted nor interrupted the
\* task-creation calls are issued for strictly increasing rows, so at most
\* one for any row; and a step never adds a call for a row the loop has
\* already gone through, whether that row was skipped, failed or succeeded.
C11_RowSubmittedOnce ==
    /\ [](\A i, k \in 1..Len(taskCalls) :
             i < k => taskCalls[i].row < taskCalls[k].row)
    /\ [][\A n \in FirstDataRow..processedTo :
             CallsForRow(taskCalls', n) = CallsForRow(taskCalls, n)]_vars

\* The task of the first row was rejected in the first batch, the run went
\* through a second batch with a call of its own and has finalized: the
\* rejected row was submitted once.
C11_Witness ==
    /\ Finalized
    /\ Len(slices) = 2
    /\ Len(taskCalls) = 2
    /\ taskCalls[1].row = FirstDataRow
    /\ ~taskCalls[1].ok
    /\ taskCalls[2].ok

\* The name the checkpoint records is missing or finds no sheet.
SourceMissing ==
    \/ ~Truthy(getProperty(props, SCRIPT_PROPERTY_SHEET_NAME))
    \/ getProperty(props, SCRIPT_PROPERTY_SHEET_NAME) /= activeSheetName

\* C12: a step of an invocation of continueProcess that finds no source
\* sheet name in the checkpoint, or a name that finds no sheet, ends the
\* invocation with no trigger of the handler pending, and leaves the
\* script properties, the remote lists, the slices read and the calls made
\* as they were.
C12_NoSourceStops ==
    [][(pc = "load" /\ SourceMissing) =>
          /\ pc' = "idle"
          /\ PendingBatchTriggers(triggers') = <<>>
          /\ DeleteExistingTriggers(triggers') = DeleteExistingTriggers(triggers)
          /\ props' = props
          /\ remoteLists' = remoteLists
          /\ reports' = reports
          /\ <<slices', taskCalls', listCalls', processedTo'>> =
                <<slices, taskCalls, listCalls, processedTo>>]_vars

\* The sheet was renamed in the middle of a run; the invocation that the
\* trigger of the first batch started has stopped, with the checkpoint of
\* the first batch still stored.
C12_Witness ==
    /\ step = "AbortNoSource"
    /\ activeSheetName = RenamedSheetName
    /\ getProperty(props, SCRIPT_PROPERTY_SHEET_NAME) = SheetName
    /\ SCRIPT_PROPERTY_ROW \in DOMAIN props
    /\ armedFor >= FirstDataRow
    /\ PendingBatchTriggers(triggers) = <<>>

\* An invocation of the single-sheet script is at its start, on a sheet
\* that lacks a required header.
SingleHeadersMissing ==
    /\ variant = "single"
    /\ pc = "load"
    /\ SourceSheetFound(props)
    /\ ~("title" \in headers /\ "list_title" \in headers)

\* An invocation of the multi-sheet script is at its start, and the sheet
\* in progress lacks a required header.
MultiHeadersMissing ==
    /\ variant = "multi"
    /\ pc = "load"
    /\ CurrentSheetIndex(props) < Len(allSheets)
    /\ LET sh == SheetAtIndex(CurrentSheetIndex(props))
       IN  ~("title" \in sh.headers /\ "list_title" \in sh.headers)

\* The sheet in progress has rows at or after the cursor.
RowsRemain ==
    IF variant = "single" THEN StartRow(props) <= LastRow
    ELSE StartRow(props) <= LastRowOf(SheetAtIndex(CurrentSheetIndex(props)))

\* C13 as it is stated, for the single-sheet script: in a run on a sheet
\* that lacks a required header the checkpoint stays as the start of the
\* run left it.
C13_CheckpointUntouched ==
    (variant = "single" /\ started /\ pc = "idle"
        /\ ~("title" \in headers /\ "list_title" \in headers)) =>
       props = FreshCheckpoint(NoProperties)

\* C13, as the code has it: an invocation that finds a required header
\* missing while rows remain at or after the cursor ends without reading a
\* row and without a call that creates a list or a task; the single-sheet
\* script leaves the script properties as they were and no continuation
\* pending, the multi-sheet script stores the next sheet index, deletes the
\* row cursor, keeps the other keys and leaves one continuation pending.
\* When no row remains the cursor test comes first: the single-sheet script
\* finalizes, the multi-sheet script moves to the next sheet.
C13_MissingHeadersAbort ==
    [][/\ ((SingleHeadersMissing \/ MultiHeadersMissing) /\ RowsRemain) =>
            /\ pc' = "idle"
            /\ <<remoteLists', slices', taskCalls', listCalls', processedTo'>> =
                  <<remoteLists, slices, taskCalls, listCalls, processedTo>>
            /\ variant = "single" =>
                  /\ props' = props
                  /\ PendingBatchTriggers(triggers') = <<>>
            /\ variant = "multi" =>
                  /\ CurrentSheetIndex(props') = CurrentSheetIndex(props) + 1
                  /\ SCRIPT_PROPERTY_ROW \notin DOMAIN props'
                  /\ LoadCache(props') = LoadCache(props)
                  /\ LoadListTitle(props') = LoadListTitle(props)
                  /\ Len(PendingBatchTriggers(triggers')) = 1
       /\ (SingleHeadersMissing /\ ~RowsRemain) =>
            /\ DOMAIN props' = {}
            /\ Len(reports') = Len(reports) + 1
            /\ PendingBatchTriggers(triggers') = <<>>
       /\ (MultiHeadersMissing /\ ~RowsRemain) =>
            /\ CurrentSheetIndex(props') = CurrentSheetIndex(props) + 1
            /\ SCRIPT_PROPERTY_ROW \notin DOMAIN props'
            /\ Len(PendingBatchTriggers(triggers')) = 1]_vars

\* The multi-sheet script has processed its first sheet, with a task
\* creation call, and has skipped its second sheet, which lacks a header.
C13_Witness ==
    /\ step = "MultiSkipSheet"
    /\ CurrentSheetIndex(props) = 2
    /\ taskCalls /= <<>>
    /\ Len(PendingBatchTriggers(triggers)) = 1

\* C14: a fresh start, from any state in which no invocation is executing,
\* leaves the source sheet name as the only stored key and no continuation
\* trigger pending, with the first batch about to run; that first batch
\* starts at row 2 with an empty stored cache, no last list name and an
\* empty report; and every continuation that fires afterwards was
\* registered by a batch of the new run, never by the run it replaced.
C14_FreshStart ==
    /\ step = "CreateTasksFromCurrentSheet" =>
          /\ DOMAIN props = {SCRIPT_PROPERTY_SHEET_NAME}
          /\ props[SCRIPT_PROPERTY_SHEET_NAME] = activeSheetName
          /\ PendingBatchTriggers(triggers) = <<>>
          /\ pc = "load"
    /\ (step = "BeginBatch" /\ Uninterrupted /\ Len(slices) = 1) =>
          /\ loc.startRow = FirstDataRow
          /\ LoadCache(props) = EmptyObject
          /\ loc.lastKnownListTitle = Null
          /\ loc.reportData = EmptyObject
    /\ (started /\ step = "TriggerFires") => armedFor >= FirstDataRow
    /\ overStale => step \in {"CreateTasksFromCurrentSheet", "BeginBatch", "Row"}

\* A run started over a run in progress, whose checkpoint was past row 2
\* and whose continuation was pending, has begun its first batch.
C14_Witness ==
    /\ overStale
    /\ step = "BeginBatch"
    /\ Len(slices) = 1
    /\ loc.startRow = FirstDataRow

\* C15: in a batch, every task-creation call, successful or not, is
\* followed by the inter-call pause before the next remote call, and every
\* enumeration made by the resolver comes after a failed list creation and
\* the backoff pause.
C15_PauseAfterEveryCall ==
    \A i \in 1..(Len(wire) - 1) :
        /\ wire[i] = RemoteCall("Tasks.insert") =>
              wire[i + 1] = Sleep(API_DELAY_MS)
        /\ wire[i + 1] = RemoteCall("Tasklists.list") =>
              /\ wire[i] = Sleep(2000)
              /\ i > 1
              /\ wire[i - 1] = RemoteCall("Tasklists.insert")

\* The executions of continueProcess in progress that have read the
\* checkpoint.
Executing ==
    {e \in {"current", "other"} :
        (IF e = "current" THEN pc ELSE parked.pc) \in {"rows", "reschedule"}}

\* C16: at most one execution of continueProcess is in progress at any
\* time.
C16_SingleActiveInvocation == Cardinality(Executing) <= 1

\* The id of the last remote list of a title, 0 when there is none.
RECURSIVE LastByTitle(_, _)
LastByTitle(remote, name) ==
    IF remote = <<>> THEN 0
    ELSE IF remote[Len(remote)].title = name THEN remote[Len(remote)].id
    ELSE LastByTitle(SubSeq(remote, 1, Len(remote) - 1), name)

RemoteTitles == {remoteLists[i].title : i \in DOMAIN remoteLists}

\* C17: a batch whose enumeration succeeds starts its rows with a cache
\* that maps every remote list name to the id of a remote list of that
\* name (the last enumerated), whatever was stored for the name, and keeps
\* the stored entries of the other names; a batch whose enumeration fails
\* starts its rows all the same, with the stored cache.
C17_RemoteWins ==
    [][/\ BeginBatch("ok") =>
            /\ pc' = "rows"
            /\ RemoteTitles \subseteq DOMAIN loc'.taskListCache
            /\ \A t \in RemoteTitles :
                  /\ loc'.taskListCache[t] = LastByTitle(remoteLists, t)
                  /\ \E i \in DOMAIN remoteLists :
                        remoteLists[i] = RemoteList(t, loc'.taskListCache[t])
            /\ \A t \in DOMAIN loc'.taskListCache \ RemoteTitles :
                  /\ t \in DOMAIN LoadCache(props)
                  /\ loc'.taskListCache[t] = LoadCache(props)[t]
       /\ BeginBatch("fail") =>
            /\ pc' = "rows"
            /\ loc'.taskListCache = LoadCache(props)]_vars

\* A batch has started with a cache in which the remote id of a list
\* replaced a different id stored for the same name.
C17_Witness ==
    /\ step = "BeginBatch"
    /\ \E t \in DOMAIN LoadCache(props) \cap RemoteTitles :
          /\ loc.taskListCache[t] /= LoadCache(props)[t]
          /\ loc.taskListCache[t] = LastByTitle(remoteLists, t)

\* The title and the id of a row as the cells give them, trimmed; a sheet
\* without an id column gives no id.
TitleCell(n) == Trim(RowAt(n).title)

IdCell(n) == IF "id" \in headers THEN Trim(RowAt(n).id) ELSE <<>>

\* The row was read under a list that is established: a list title was
\* seen at or above it and the resolver did not fail on it.
ListEstablished(n) ==
    /\ Truthy(ListValueAt(n))
    /\ \A i \in CallsForRow(listCalls, n) : listCalls[i].id /= 0

IsListMarker(title) == StartsWith(ToLowerCase(title), ListPrefix)

\* C18: of the rows an uninterrupted run has processed, a task row with an
\* empty title and a non-empty id, under an established list, has exactly
\* one task creation call, titled with the trimmed id; a row whose title
\* and id are both empty has none; a task row with a non-empty title, under
\* an established list, has exactly one, titled with the trimmed title
\* whatever its id.  (Empty is empty once trimmed; a row whose title, or
\* whose id for want of a title, begins with the list marker is not a task
\* row.)
C18_TitleFallback ==
    \A n \in FirstDataRow..processedTo :
        LET calls == CallsForRow(taskCalls, n)
        IN  /\ (TitleCell(n) = <<>> /\ IdCell(n) /= <<>>
                  /\ ~IsListMarker(IdCell(n)) /\ ListEstablished(n)) =>
                  /\ Cardinality(calls) = 1
                  /\ \A i \in calls : taskCalls[i].task.title = IdCell(n)
            /\ (TitleCell(n) = <<>> /\ IdCell(n) = <<>>) => calls = {}
            /\ (TitleCell(n) /= <<>> /\ ~IsListMarker(TitleCell(n))
                  /\ ListEstablished(n)) =>
                  /\ Cardinality(calls) = 1
                  /\ \A i \in calls : taskCalls[i].task.title = TitleCell(n)

\* A run has submitted a row with a blank title and the id "2 " under the
\* title "2", after a row with a title and an id under its title.
C18_Witness ==
    /\ \E i \in 1..Len(taskCalls) :
          /\ TitleCell(taskCalls[i].row) = <<>>
          /\ RowAt(taskCalls[i].row).id = <<"2", " ">>
          /\ taskCalls[i].task.title = <<"2">>
    /\ \E i \in 1..Len(taskCalls) :
          /\ RowAt(taskCalls[i].row).id = <<"1">>
          /\ taskCalls[i].task.title = <<"t">>

\* The row has a due cell that is not a date.
DueUnparseable(n) ==
    /\ "due" \in headers
    /\ RowAt(n).due /= <<>>
    /\ NewDate(RowAt(n).due) = InvalidDate

\* C19: of the rows an uninterrupted run has processed, a task row under an
\* established list whose due value is no date has exactly one task
\* creation call, whose task has the row's title, status and notes and no
\* due field; and the batch goes on to the next row.
C19_BadDueStillSubmitted ==
    /\ \A n \in FirstDataRow..processedTo :
          (DueUnparseable(n) /\ IsTaskRow(n) /\ ListEstablished(n)) =>
             /\ Cardinality(CallsForRow(taskCalls, n)) = 1
             /\ \A i \in CallsForRow(taskCalls, n) :
                   /\ taskCalls[i].task.due = Null
                   /\ taskCalls[i].task.title = TitleCell(n)
                   /\ taskCalls[i].task.status = TaskStatus(RowAt(n))
                   /\ taskCalls[i].task.notes = TaskNotes(RowAt(n))
    /\ \A i \in 1..Len(taskCalls) :
          taskCalls[i].task.due /= Null =>
             /\ ~DueUnparseable(taskCalls[i].row)
             /\ "due" \in headers
             /\ SubSeq(taskCalls[i].task.due, 1, 10) = RowAt(taskCalls[i].row).due
    /\ (step = "Row" /\ DueUnparseable(processedTo)) =>
          pc = "rows" /\ processedTo = loc.startRow + loc.j - 1

\* A run has submitted the row whose due cell reads "soon", completed and
\* with its link in the notes but no due field, and a row with a date,
\* with the due field.
C19_Witness ==
    /\ \E i \in 1..Len(taskCalls) :
          /\ DueUnparseable(taskCalls[i].row)
          /\ taskCalls[i].task.due = Null
          /\ taskCalls[i].task.status = completed
          /\ taskCalls[i].task.notes /= Null
    /\ \E i \in 1..Len(taskCalls) : taskCalls[i].task.due /= Null

BuyMilk == <<"B", "u", "y", " ", "m", "i", "l", "k">>

\* The run has ended: no execution, no checkpoint, no continuation.
RunEnded ==
    /\ started
    /\ pc = "idle"
    /\ PendingBatchTriggers(triggers) = <<>>

\* One list "Work" resolved or created, one task creation "Buy milk" with
\* notes "Link: http://x" and no status, and the report counting it.
ScenarioResult ==
    /\ Len(listCalls) <= 1
    /\ \A i \in 1..Len(listCalls) : listCalls[i].name = Work
    /\ Len(taskCalls) = 1
    /\ taskCalls[1].list = Work
    /\ \E i \in DOMAIN remoteLists :
          remoteLists[i] = RemoteList(Work, taskCalls[1].listId)
    /\ taskCalls[1].task =
          [title |-> BuyMilk, status |-> Null, due |-> Null,
           notes |-> <<"L", "i", "n", "k", ":", " ",
                       "h", "t", "t", "p", ":", "/", "/", "x">>]
    /\ reports = << [k \in {Work} |->
                       [total |-> 1, completed |-> 0, needsAction |-> 1]] >>

\* C20 as it is stated: the run on the rows ["List: Work", "list1"] and
\* ["Buy milk", "", "needsAction", "", "http://x"] ends with that result.
C20_ScenarioAsStated ==
    (sheet = <<8, 9>> /\ RunEnded) => ScenarioResult

\* C20, with the list's name where the code reads it: on a sheet with the
\* columns list_title, title, id, status, due, links, the run on the
\* list-marker row (list_title "Work", title "List: Work", id "list1") and
\* the task row (title "Buy milk", status "needsAction", links "http://x")
\* against a remote service that accepts the calls ends with that result.
C20_Scenario ==
    (/\ sheet = <<10, 9>>
     /\ headers = ExportHeaderNames
     /\ RunEnded
     /\ \A i \in 1..Len(listCalls) : listCalls[i].id /= 0
     /\ \A i \in 1..Len(taskCalls) : taskCalls[i].ok) => ScenarioResult

\* The run on the scenario's rows has ended after creating the list, the
\* list marker in one batch and the task in the next.
C20_Witness ==
    /\ sheet = <<10, 9>>
    /\ headers = ExportHeaderNames
    /\ RunEnded
    /\ Len(slices) = 2
    /\ Len(listCalls) = 1
    /\ listCalls[1].result = "created"
    /\ Len(taskCalls) = 1
    /\ taskCalls[1].ok
    /\ Len(reports) = 1

\* C21: in an uninterrupted run, a row step in which the resolver was
\* called on a cache miss made one creation call for the row's list name;
\* when the creation gave an id, the cache afterwards maps the name to it
\* and the list is the one appended remotely; when the creation was
\* rejected, the backoff and the enumeration followed, and an id returned is
\* that of a remote list of exactly that title, stored in the cache; when
\* the resolver failed (no id, no match or a failed enumeration) the cache
\* is as it was before the row and no task was submitted; and whenever a
\* task was submitted the cache maps its list name to the id it was
\* submitted to.
C21_ResolverWritesThrough ==
    [][(step' = "Row" /\ Uninterrupted) =>
          LET n == processedTo'
              made == CallsForRow(listCalls', n)
              sent == CallsForRow(taskCalls', n)
              cache == loc'.taskListCache
          IN  /\ Cardinality(made) <= 1
              /\ \A i \in made :
                    LET c == listCalls'[i]
                    IN  /\ c.name \notin DOMAIN loc.taskListCache
                        /\ c.name = ListValueAt(n)
                        /\ (c.result = "created") =>
                              /\ c.id /= 0
                              /\ remoteLists' =
                                    Append(remoteLists, RemoteList(c.name, c.id))
                        /\ (c.result = "rejected") =>
                              /\ remoteLists' = remoteLists
                              /\ \E k \in 1..(Len(wire') - 2) :
                                    /\ wire'[k] = RemoteCall("Tasklists.insert")
                                    /\ wire'[k + 1] = Sleep(2000)
                                    /\ wire'[k + 2] = RemoteCall("Tasklists.list")
                        /\ (c.result = "noId") => c.id = 0
                        /\ (c.id /= 0) =>
                              /\ cache = Put(loc.taskListCache, c.name, c.id)
                              /\ \E k \in DOMAIN remoteLists' :
                                    remoteLists'[k] = RemoteList(c.name, c.id)
                        /\ (c.id = 0) =>
                              /\ cache = loc.taskListCache
                              /\ sent = {}
              /\ made = {} => cache = loc.taskListCache
              /\ \A i \in sent :
                    /\ taskCalls'[i].list \in DOMAIN cache
                    /\ cache[taskCalls'[i].list] = taskCalls'[i].listId]_vars

\* The resolver has found, after a rejected creation, the remote list of
\* the name and stored it; and, for another row, has failed.
C21_Witness ==
    /\ \E i \in 1..Len(listCalls) :
          /\ listCalls[i].result = "rejected"
          /\ listCalls[i].id /= 0
          /\ pc = "rows" => loc.taskListCache[listCalls[i].name] = listCalls[i].id
    /\ \E i \in 1..Len(listCalls) : listCalls[i].id = 0

\* The task creation calls of rows before a row that the remote service
\* accepted for a list.
SucceededFor(name, upto) ==
    {i \in 1..Len(taskCalls) :
        /\ taskCalls[i].ok
        /\ taskCalls[i].list = name
        /\ taskCalls[i].row < upto}

\* The report counts, per list, exactly those calls, by status.
ReportMatches(report, upto) ==
    /\ DOMAIN report =
          {taskCalls[i].list : i \in {j \in 1..Len(taskCalls) :
                                        taskCalls[j].ok /\ taskCalls[j].row < upto}}
    /\ \A name \in DOMAIN report :
          LET done == {i \in SucceededFor(name, upto) :
                          taskCalls[i].task.status = completed}
          IN  /\ report[name].total = Cardinality(SucceededFor(name, upto))
              /\ report[name].completed = Cardinality(done)
              /\ report[name].needsAction =
                    Cardinality(SucceededFor(name, upto) \ done)
              /\ report[name].total =
                    report[name].completed + report[name].needsAction

ReadsCompleted(text) ==
    \E before, after \in 0..Len(text) :
        /\ before + Len(completed) + after = Len(text)
        /\ \A k \in 1..before : text[k] = " "
        /\ \A k \in 1..after : text[Len(text) + 1 - k] = " "
        /\ \A k \in 1..Len(completed) :
              LowerChar(text[before + k]) = completed[k]

\* C23: every task creation call carries the status completed if the
\* sheet has a status column and the row's status cell reads "completed"
\* once lower-cased and trimmed, and carries no status otherwise.
C23_StatusCompleted ==
    \A i \in 1..Len(taskCalls) :
        LET cell == RowAt(taskCalls[i].row).status
        IN  IF "status" \in headers /\ ReadsCompleted(cell)
            THEN taskCalls[i].task.status = completed
            ELSE taskCalls[i].task.status = Null

\* A run has submitted the row whose status reads "Completed " as
\* completed and the row whose status reads "needsAction" with no status.
C23_Witness ==
    /\ "status" \in headers
    /\ \E i \in 1..Len(taskCalls) :
          /\ RowAt(taskCalls[i].row).status =
                <<"C", "o", "m", "p", "l", "e", "t", "e", "d", " ">>
          /\ taskCalls[i].task.status = completed
    /\ \E i \in 1..Len(taskCalls) :
          /\ RowAt(taskCalls[i].row).status /= <<>>
          /\ taskCalls[i].task.status = Null

\* C24: from the loading of the checkpoint to the persistence step an
\* invocation leaves the script properties and the triggers as they are:
\* the start of the batch, every row step and an interruption in the row
\* loop change neither, so that after such an interruption the stored
\* cursor is still the row the invocation started at, below the rows it
\* had processed.
C24_NoWriteBeforePersist ==
    /\ [][((pc = "load" /\ pc' = "rows") \/ (pc = "rows" /\ pc' = "rows")
             \/ (pc = "rows" /\ step' = "Crash")) =>
            /\ props' = props
            /\ triggers' = triggers]_vars
    /\ [](pc = "rows" => StartRow(props) = loc.startRow)

\* An invocation has been interrupted after it had processed rows and
\* created a task, the stored cursor still at the row it started at.
C24_Witness ==
    /\ step = "Crash"
    /\ crashes = <<"rows">>
    /\ inserted /= EmptyObject
    /\ processedTo >= StartRow(props)

(***************************************************************************)
(* C25: in the multi-sheet variant the carried-forward list name never     *)
(* crosses a sheet boundary.  When the first batch of a sheet starts, the  *)
(* stored lastKnownListTitle is absent and the batch starts without a      *)
(* list name; and every task a row submits goes to the list named at or    *)
(* above that row in the sheet being processed, never to one named only    *)
(* in an earlier sheet.                                                    *)
(***************************************************************************)
C25_FirstBatchOfSheet ==
    /\ step = "MultiBeginBatch"
    /\ pc = "rows"
    /\ loc.startRow = FirstDataRow

NoTaskList == RemoteList(Null, 0)

ExportListPrefix == <<"l", "i", "s", "t">>

\* The text the title of a starred task is prefixed with; "*" stands for
\* the star character of the source.
StarPrefix == <<"*", " ">>

Starred == <<"s", "t", "a", "r", "r", "e", "d">>

Includes(s, sub) ==
    \E k \in 0..(Len(s) - Len(sub)) : SubSeq(s, k + 1, k + Len(sub)) = sub

IsExportListRow(row) == StartsWith(ToLowerCase(Trim(row.title)), ExportListPrefix)

GetTaskListByName(name, remote, out) ==
    LET found == FindByTitle(remote, name)
        newId == NewListId(remote)
        call(result, id) == [name |-> name, result |-> result, id |-> id]
    IN  IF out.list = "fail"
        THEN [taskList |-> NoTaskList, remote |-> remote, threw |-> TRUE,
              call |-> call("threw", 0),
              wire |-> <<RemoteCall("Tasklists.list")>>]
        ELSE IF found /= 0
        THEN [taskList |-> RemoteList(name, found), remote |-> remote,
              threw |-> FALSE, call |-> call("found", found),
              wire |-> <<RemoteCall("Tasklists.list")>>]
        ELSE IF out.create = "created"
        THEN [taskList |-> RemoteList(name, newId),
              remote |-> Append(remote, RemoteList(name, newId)),
              threw |-> FALSE, call |-> call("created", newId),
              wire |-> <<RemoteCall("Tasklists.list"),
                         RemoteCall("Tasklists.insert")>>]
        ELSE [taskList |-> NoTaskList, remote |-> remote, threw |-> FALSE,
              call |-> call("failed", 0),
              wire |-> <<RemoteCall("Tasklists.list"),
                         RemoteCall("Tasklists.insert")>>]

CurrentTaskListAfter_KeepsEarlier(currentTaskList, listName, obtained) ==
    IF Truthy(listName) /\ obtained /= NoTaskList THEN obtained
    ELSE currentTaskList

\* currentTaskList after a list row whose list_title cell is listName and
\* for which getTaskListByName returned obtained.
CurrentTaskListAfter(currentTaskList, listName, obtained) ==
    IF Truthy(listName) THEN obtained ELSE currentTaskList

ExportTitle(row) ==
    IF HasColumn("links") /\ Includes(ToLowerCase(row.links), Starred)
    THEN StarPrefix \o row.title ELSE row.title

ExportNotes(row) ==
    IF HasColumn("links") /\ Trim(row.links) /= <<>>
       /\ ToLowerCase(row.links) /= Starred
    THEN LinkPrefix \o Trim(row.links) ELSE Null

ExportTask(row) ==
    [title |-> ExportTitle(row), status |-> TaskStatus(row),
     due |-> TaskDue(row), notes |-> ExportNotes(row)]

ExportOutcomes(remote) == {o \in RowOutcomes(remote) : o.create /= "noId"}

ExportProcessRow(currentTaskList, remote, n, out) ==
    LET row == RowAt(n)
        none == [currentTaskList |-> currentTaskList, remote |-> remote,
                 listCalls |-> <<>>, taskCalls |-> <<>>, threw |-> FALSE,
                 wire |-> <<>>]
    IN  IF IsExportListRow(row)
        THEN IF Truthy(row.list_title)
             THEN LET got == GetTaskListByName(Trim(row.list_title), remote, out)
                  IN  [currentTaskList |->
                           CurrentTaskListAfter(currentTaskList, row.list_title,
                                                got.taskList),
                       remote |-> got.remote,
                       listCalls |-> <<[row |-> n, name |-> got.call.name,
                                        result |-> got.call.result,
                                        id |-> got.call.id]>>,
                       taskCalls |-> <<>>,
                       threw |-> got.threw,
                       wire |-> got.wire]
             ELSE none
        ELSE IF Truthy(row.title) /\ currentTaskList /= NoTaskList
        THEN [none EXCEPT
                !.taskCalls = <<[row |-> n, list |-> currentTaskList.title,
                                 listId |-> currentTaskList.id,
                                 task |-> ExportTask(row),
                                 ok |-> out.insert = "ok"]>>,
                !.threw = out.insert /= "ok",
                !.wire = InsertWire(out.insert)]
        ELSE none

ExportUnchanged ==
    /\ UNCHANGED <<env, props, triggers, reports, slices, crashes, armedFor,
                   inserted, overStale, parked>>

\* The menu item: the header row lacks title or list_title and the function
\* returns after its alerts.
ExportMissingHeaders ==
    /\ pc = "idle"
    /\ ~started
    /\ ~({"title", "list_title"} \subseteq headers)
    /\ started' = TRUE
    /\ step' = "ExportMissingHeaders"
    /\ UNCHANGED <<pc, loc, remoteLists, taskCalls, listCalls, wire, processedTo>>
    /\ ExportUnchanged

\* The menu item with both required headers: the data rows are read.  A
\* sheet without data rows makes getRange throw, which ends the invocation.
CreateTasksFromSheet ==
    /\ pc = "idle"
    /\ ~started
    /\ {"title", "list_title"} \subseteq headers
    /\ started' = TRUE
    /\ IF sheet = <<>>
       THEN pc' = "idle" /\ loc' = loc
       ELSE pc' = "export" /\ loc' = [i |-> 0, currentTaskList |-> NoTaskList]
    /\ step' = "CreateTasksFromSheet"
    /\ UNCHANGED <<remoteLists, taskCalls, listCalls, wire, processedTo>>
    /\ ExportUnchanged

\* One pass of the loop over the data rows.
ExportRow(out) ==
    /\ pc = "export"
    /\ loc.i < Len(sheet)
    /\ LET r == ExportProcessRow(loc.currentTaskList, remoteLists,
                                 FirstDataRow + loc.i, out)
       IN  /\ remoteLists' = r.remote
           /\ taskCalls' = taskCalls \o r.taskCalls
           /\ listCalls' = listCalls \o r.listCalls
           /\ wire' = r.wire
           /\ IF r.threw
              THEN pc' = "idle" /\ loc' = NoLocals
              ELSE pc' = "export"
                   /\ loc' = [i |-> loc.i + 1,
                            currentTaskList |-> r.currentTaskList]
    /\ processedTo' = FirstDataRow + loc.i
    /\ step' = "ExportRow"
    /\ UNCHANGED started
    /\ ExportUnchanged

\* The loop is over: the closing alert.
ExportFinish ==
    /\ pc = "export"
    /\ loc.i = Len(sheet)
    /\ pc' = "idle"
    /\ loc' = NoLocals
    /\ step' = "ExportFinish"
    /\ UNCHANGED <<remoteLists, taskCalls, listCalls, wire, processedTo, started>>
    /\ ExportUnchanged

ExportSheets == UNION {[1..n -> {3, 5, 8, 12, 13}] : n \in 0..MaxExportRows}

ExportInit ==
    /\ InitWith(ExportSheets,
                {ExportHeaderNames, HeaderNames, ExportHeaderNames \ {"title"}},
                InitialRemotes)
    /\ batchSize = 1
    /\ stable = <<>>

ExportNext ==
    \/ ExportMissingHeaders
    \/ CreateTasksFromSheet
    \/ \E out \in ExportOutcomes(remoteLists) : ExportRow(out)
    \/ ExportFinish

ExportSpec == ExportInit /\ [][ExportNext]_vars

\* The data row of the most recent list row at or above row n whose
\* list_title cell is not empty; 0 when there is none.
RECURSIVE NamedListRowAbove(_)
NamedListRowAbove(n) ==
    IF n < FirstDataRow THEN 0
    ELSE IF IsExportListRow(RowAt(n)) /\ Truthy(RowAt(n).list_title) THEN n
    ELSE NamedListRowAbove(n - 1)

(***************************************************************************)
(* C26: in the non-batched exporter a task is inserted only for a row with *)
(* a non-empty title that is not a list row, and only into the list that   *)
(* getTaskListByName returned for the most recent list row above it with a *)
(* non-empty list name.  When that find-or-create failed, the rows below   *)
(* it are inserted nowhere, in particular not into a list obtained for an  *)
(* earlier list row.                                                       *)
(***************************************************************************)
C26_InsertedIntoCurrentList ==
    \A k \in DOMAIN taskCalls :
        LET c == taskCalls[k]
            r == NamedListRowAbove(c.row)
        IN  /\ Truthy(RowAt(c.row).title)
            /\ ~IsExportListRow(RowAt(c.row))
            /\ r /= 0
            /\ \E j \in DOMAIN listCalls :
                   /\ listCalls[j].row = r
                   /\ listCalls[j].id /= 0
                   /\ listCalls[j].name = Trim(RowAt(r).list_title)
                   /\ c.listId = listCalls[j].id
                   /\ c.list = listCalls[j].name

C26_Witness ==
    /\ step = "ExportRow"
    /\ pc = "export"
    /\ loc.i = 4
    /\ Len(listCalls) = 2
    /\ listCalls[1].id /= 0
    /\ listCalls[2].result = "failed"
    /\ listCalls[2].row = processedTo - 1
    /\ Truthy(RowAt(processedTo).title)
    /\ ~IsExportListRow(RowAt(processedTo))
    /\ Len(taskCalls) = 1
    /\ taskCalls[1].row < listCalls[2].row
    /\ taskCalls[1].listId = listCalls[1].id

=============================================================================
